---- MODULE Spec2Model ----
(***************************************************************************)
(* India Post tracking scraper: IndiaPostTracker (tracker.py).             *)
(* A tracker instance is a state machine whose only state that survives a  *)
(* call is the _session_initialized flag; track() is one atomic step whose *)
(* inputs are the tracking number, the demo flag and the behaviour of the  *)
(* remote site (the outcome of each network leg and the documents served). *)
(*                                                                         *)
(* Text is modelled in two ways.  A tracking number is a sequence of       *)
(* one-character strings, because strip(), upper() and the regular         *)
(* expression work on its characters.  Every other text is a TLA+ string;  *)
(* where the code looks inside one (lower(), "x in text") the operator     *)
(* Chars gives its characters.                                             *)
(***************************************************************************)
EXTENDS Integers, Sequences, FiniteSets, TLC

VARIABLES
    session_initialized,  \* IndiaPostTracker._session_initialized
    outcome,              \* "none" before the first call, then "returned" or "raised"
    call,                 \* the inputs of the last track() call and what the site answered
    requests,             \* the network requests the last track() call issued, in order
    attempts,             \* what each _try_track_url of the last call returned or raised
    result,               \* the TrackingResult the last track() call returned
    established,          \* history: a bootstrap GET was answered OK and no page
                          \* without a __VIEWSTATE value was served since
    cls_events,           \* the argument of _determine_status
    cls_status,           \* the status it returned for cls_events, None before
    bulk_request,         \* the BulkTrackingRequest being served
    tasks,                \* its tasks, one for each number: where the thread is
                          \* and what tracker.track did
    trackers,             \* the IndiaPostTracker objects made by get_tracker
    debug_file,           \* /tmp/tracking_response.html: the attempts that have it
                          \* open, whose text is in it, and that ever wrote it
    bulk_response,        \* the response to the bulk request, None before
    fl_events,            \* the argument of generate_flight_summary
    fl_summary,           \* what it returned for fl_events, None before
    fl_location,          \* the last argument of extract_flight_info, None before
    fl_info               \* what it returned for fl_location

trackerVars == <<session_initialized, outcome, call, requests, attempts, result, established>>
clsVars == <<cls_events, cls_status>>
bulkVars == <<bulk_request, tasks, trackers, debug_file, bulk_response>>
flightVars == <<fl_events, fl_summary, fl_location, fl_info>>
vars == <<session_initialized, outcome, call, requests, attempts, result, established,
          cls_events, cls_status, bulk_request, tasks, trackers, debug_file,
          bulk_response, fl_events, fl_summary, fl_location, fl_info>>

----------------------------------------------------------------------------
(* Optional[T]: None is the empty sequence, a value v is <<v>>.            *)

None == <<>>
Some(v) == <<v>>
IsNone(o) == o = <<>>

----------------------------------------------------------------------------
(* Characters of a tracking number.                                        *)

UpperSeq == <<"A","B","C","D","E","F","G","H","I","J","K","L","M",
              "N","O","P","Q","R","S","T","U","V","W","X","Y","Z">>
LowerSeq == <<"a","b","c","d","e","f","g","h","i","j","k","l","m",
              "n","o","p","q","r","s","t","u","v","w","x","y","z">>
DigitSeq == <<"0","1","2","3","4","5","6","7","8","9">>

Range(f) == {f[i] : i \in DOMAIN f}

UpperLetters == Range(UpperSeq)
LowerLetters == Range(LowerSeq)
Digits == Range(DigitSeq)
\* str.strip() with no argument removes whitespace
Whitespace == {" ", "\t", "\n", "\r"}

\* the upper-case form of each lower-case letter, and the converse
UpperOf == [c \in LowerLetters |-> UpperSeq[CHOOSE i \in DOMAIN LowerSeq : LowerSeq[i] = c]]
LowerOf == [c \in UpperLetters |-> LowerSeq[CHOOSE i \in DOMAIN UpperSeq : UpperSeq[i] = c]]

\* str.upper() on one character
UpperChar(c) == IF c \in LowerLetters THEN UpperOf[c] ELSE c

\* str.lower() on one character
LowerChar(c) == IF c \in UpperLetters THEN LowerOf[c] ELSE c

ToUpper(s) == [i \in DOMAIN s |-> UpperChar(s[i])]
ToLower(s) == [i \in DOMAIN s |-> LowerChar(s[i])]

\* str.lstrip() and str.rstrip(): drop the leading, the trailing whitespace
RECURSIVE LStrip(_)
LStrip(s) == IF s = <<>> \/ Head(s) \notin Whitespace THEN s ELSE LStrip(Tail(s))

RECURSIVE RStrip(_)
RStrip(s) ==
    IF s = <<>> \/ s[Len(s)] \notin Whitespace THEN s
    ELSE RStrip(SubSeq(s, 1, Len(s) - 1))

\* str.strip()
Strip(s) == RStrip(LStrip(s))

\* tracking_number.strip().upper()
NormalizeUpperOnly(s) == ToUpper(s)
Normalize(s) == ToUpper(Strip(s))

\* The quantifiers of the pattern ^[A-Z]{2}\d{9}[A-Z]{2}$
PrefixLetters == 2
NumDigits == 9
SuffixLetters == 2

\* [A-Z]{2}\d{9}[A-Z]{2} matched against the first characters of s
PatternAtStart(s) ==
    LET n == PrefixLetters + NumDigits + SuffixLetters
    IN  /\ Len(s) >= n
        /\ \A i \in 1..n :
              IF i <= PrefixLetters \/ i > PrefixLetters + NumDigits
              THEN s[i] \in UpperLetters
              ELSE s[i] \in Digits

\* re.match(r'^[A-Z]{2}\d{9}[A-Z]{2}$', s): without re.MULTILINE, $ matches
\* at the end of the string and also just before a newline that ends it.
ReMatch(s) ==
    LET n == PrefixLetters + NumDigits + SuffixLetters
    IN  /\ PatternAtStart(s)
        /\ \/ Len(s) = n
           \/ Len(s) = n + 1 /\ s[n + 1] = "\n"

----------------------------------------------------------------------------
(* Texts other than tracking numbers are TLA+ strings.  Chars(s) is the    *)
(* sequence of characters of the string s; it is tabulated for the strings *)
(* the model uses.                                                         *)

Chars(s) ==
    CASE s = "deliver" -> <<"d","e","l","i","v","e","r">>
      [] s = "out for delivery" -> <<"o","u","t"," ","f","o","r"," ","d","e","l","i","v","e","r","y">>
      [] s = "transit" -> <<"t","r","a","n","s","i","t">>
      [] s = "dispatch" -> <<"d","i","s","p","a","t","c","h">>
      [] s = "book" -> <<"b","o","o","k">>
      [] s = "return" -> <<"r","e","t","u","r","n">>
      [] s = "Item Delivered" -> <<"I","t","e","m"," ","D","e","l","i","v","e","r","e","d">>
      [] s = "Out for delivery" -> <<"O","u","t"," ","f","o","r"," ","d","e","l","i","v","e","r","y">>
      [] s = "OUT FOR DELIVERY" -> <<"O","U","T"," ","F","O","R"," ","D","E","L","I","V","E","R","Y">>
      [] s = "Out For Delivery" -> <<"O","u","t"," ","F","o","r"," ","D","e","l","i","v","e","r","y">>
      [] s = "Item Dispatched" -> <<"I","t","e","m"," ","D","i","s","p","a","t","c","h","e","d">>
      [] s = "In Transit" -> <<"I","n"," ","T","r","a","n","s","i","t">>
      [] s = "Item Booked" -> <<"I","t","e","m"," ","B","o","o","k","e","d">>
      [] s = "Return to sender" -> <<"R","e","t","u","r","n"," ","t","o"," ","s","e","n","d","e","r">>
      [] s = "Item Received" -> <<"I","t","e","m"," ","R","e","c","e","i","v","e","d">>
      [] s = "Bag dispatched after booking" -> <<"B","a","g"," ","d","i","s","p","a","t","c","h","e","d"," ","a","f","t","e","r"," ","b","o","o","k","i","n","g">>
      [] s = "Booked item returned" -> <<"B","o","o","k","e","d"," ","i","t","e","m"," ","r","e","t","u","r","n","e","d">>
      [] s = "Aircraft take off" -> <<"A","i","r","c","r","a","f","t"," ","t","a","k","e"," ","o","f","f">>
      [] s = "" -> <<>>
      [] s = "flight" -> <<"f","l","i","g","h","t">>
      [] s = "Mumbai" -> <<"M","u","m","b","a","i">>
      [] s = "Delhi" -> <<"D","e","l","h","i">>
      [] s = "Toronto" -> <<"T","o","r","o","n","t","o">>
      [] s = "Flight - AI0187 (DEL to YYZ)" -> <<"F","l","i","g","h","t"," ","-"," ","A","I","0","1","8","7"," ","(","D","E","L"," ","t","o"," ","Y","Y","Z",")">>
      [] s = "from Delhi to Mumbai" -> <<"f","r","o","m"," ","D","e","l","h","i"," ","t","o"," ","M","u","m","b","a","i">>
      [] s = "DEL-YYZ" -> <<"D","E","L","-","Y","Y","Z">>
      [] s = "flight ai0187" -> <<"f","l","i","g","h","t"," ","a","i","0","1","8","7">>
      [] s = "Air India Flight AI101 from Delhi to Toronto" -> <<"A","i","r"," ","I","n","d","i","a"," ","F","l","i","g","h","t"," ","A","I","1","0","1"," ","f","r","o","m"," ","D","e","l","h","i"," ","t","o"," ","T","o","r","o","n","t","o">>
      [] s = "Cargo flight DEL - YYZ" -> <<"C","a","r","g","o"," ","f","l","i","g","h","t"," ","D","E","L"," ","-"," ","Y","Y","Z">>
      [] s = "CARGO FLIGHT DEL - YYZ" -> <<"C","A","R","G","O"," ","F","L","I","G","H","T"," ","D","E","L"," ","-"," ","Y","Y","Z">>
      [] s = "Inflight hub" -> <<"I","n","f","l","i","g","h","t"," ","h","u","b">>
      [] s = "DEL-YYZ from Delhi to Mumbai" -> <<"D","E","L","-","Y","Y","Z"," ","f","r","o","m"," ","D","e","l","h","i"," ","t","o"," ","M","u","m","b","a","i">>
      [] s = "FLIGHT" -> <<"F","L","I","G","H","T">>
      [] s = "AI101 DEL-YYZ" -> <<"A","I","1","0","1"," ","D","E","L","-","Y","Y","Z">>
      [] s = "events" -> <<"e","v","e","n","t","s">>
      [] s = "timeline events-list" -> <<"t","i","m","e","l","i","n","e"," ","e","v","e","n","t","s","-","l","i","s","t">>
      [] s = "list-group" -> <<"l","i","s","t","-","g","r","o","u","p">>
      [] s = "EVENTS" -> <<"E","V","E","N","T","S">>
      [] s = "error" -> <<"e","r","r","o","r">>
      [] s = "ErrorMessage" -> <<"E","r","r","o","r","M","e","s","s","a","g","e">>
      [] s = "alert" -> <<"a","l","e","r","t">>
      [] s = "grd" -> <<"g","r","d">>
      [] s = "grid" -> <<"g","r","i","d">>
      [] s = "gv" -> <<"g","v">>
      [] s = "GridView" -> <<"G","r","i","d","V","i","e","w">>
      [] s = "track" -> <<"t","r","a","c","k">>
      [] s = "event" -> <<"e","v","e","n","t">>
      [] s = "result" -> <<"r","e","s","u","l","t">>
      [] s = "table" -> <<"t","a","b","l","e">>
      [] s = "GridView1" -> <<"G","r","i","d","V","i","e","w","1">>
      [] s = "example" -> <<"e","x","a","m","p","l","e">>
      [] s = "data" -> <<"d","a","t","a">>
      [] s = "table table-striped" -> <<"t","a","b","l","e"," ","t","a","b","l","e","-","s","t","r","i","p","e","d">>
      [] s = "layout" -> <<"l","a","y","o","u","t">>
      [] s = "date" -> <<"d","a","t","e">>
      [] s = "time" -> <<"t","i","m","e">>
      [] s = "office" -> <<"o","f","f","i","c","e">>
      [] s = "status" -> <<"s","t","a","t","u","s">>
      [] s = "location" -> <<"l","o","c","a","t","i","o","n">>
      [] s = "Date Time Office Event" -> <<"D","a","t","e"," ","T","i","m","e"," ","O","f","f","i","c","e"," ","E","v","e","n","t">>
      [] s = "Origin Destination" -> <<"O","r","i","g","i","n"," ","D","e","s","t","i","n","a","t","i","o","n">>
      [] s = "Name Value" -> <<"N","a","m","e"," ","V","a","l","u","e">>
      [] s = "16-01-2026 22:41:03" -> <<"1","6","-","0","1","-","2","0","2","6"," ","2","2",":","4","1",":","0","3">>
      [] s = "15-01-2026 09:10:00" -> <<"1","5","-","0","1","-","2","0","2","6"," ","0","9",":","1","0",":","0","0">>
      [] s = "14-01-2026" -> <<"1","4","-","0","1","-","2","0","2","6">>
      [] s = "13-01-2026  07:00:00" -> <<"1","3","-","0","1","-","2","0","2","6"," "," ","0","7",":","0","0",":","0","0">>
      [] s = "Date" -> <<"D","a","t","e">>
      [] s = "Time" -> <<"T","i","m","e">>
      [] s = "Office" -> <<"O","f","f","i","c","e">>
      [] s = "Event" -> <<"E","v","e","n","t">>
      [] s = "Name" -> <<"N","a","m","e">>
      [] s = "Value" -> <<"V","a","l","u","e">>
      [] s = "Origin" -> <<"O","r","i","g","i","n">>
      [] s = "Destination" -> <<"D","e","s","t","i","n","a","t","i","o","n">>
      [] s = "origin" -> <<"o","r","i","g","i","n">>
      [] s = "destination" -> <<"d","e","s","t","i","n","a","t","i","o","n">>
      [] s = "label" -> <<"l","a","b","e","l">>
      [] s = "lblStatus" -> <<"l","b","l","S","t","a","t","u","s">>
      [] s = "ctl00_Label1" -> <<"c","t","l","0","0","_","L","a","b","e","l","1">>
      [] s = "Item delivered at , Canada on 16-01-2026 22:41:03" -> <<"I","t","e","m"," ","d","e","l","i","v","e","r","e","d"," ","a","t"," ",","," ","C","a","n","a","d","a"," ","o","n"," ","1","6","-","0","1","-","2","0","2","6"," ","2","2",":","4","1",":","0","3">>
      [] s = "Item in transit" -> <<"I","t","e","m"," ","i","n"," ","t","r","a","n","s","i","t">>
      [] s = "ctl00_ContentPlaceHolder1_gvTrack" -> <<"c","t","l","0","0","_","C","o","n","t","e","n","t","P","l","a","c","e","H","o","l","d","e","r","1","_","g","v","T","r","a","c","k">>
      [] s = "No record found" -> <<"N","o"," ","r","e","c","o","r","d"," ","f","o","u","n","d">>
      [] s = "Service unavailable" -> <<"S","e","r","v","i","c","e"," ","u","n","a","v","a","i","l","a","b","l","e">>
      [] s = "Notice" -> <<"N","o","t","i","c","e">>
      [] s = "__VIEWSTATE" -> <<"_","_","V","I","E","W","S","T","A","T","E">>
      [] s = "__EVENTVALIDATION" -> <<"_","_","E","V","E","N","T","V","A","L","I","D","A","T","I","O","N">>
      [] s = "__EVENTTARGET" -> <<"_","_","E","V","E","N","T","T","A","R","G","E","T">>
      [] s = "__EVENTARGUMENT" -> <<"_","_","E","V","E","N","T","A","R","G","U","M","E","N","T">>
      [] s = "ctl00$txtItemId" -> <<"c","t","l","0","0","$","t","x","t","I","t","e","m","I","d">>
      [] s = "txtItemId" -> <<"t","x","t","I","t","e","m","I","d">>
      [] s = "txtTrack" -> <<"t","x","t","T","r","a","c","k">>
      [] s = "ctl00$btnTrack" -> <<"c","t","l","0","0","$","b","t","n","T","r","a","c","k">>
      [] s = "btnTrack" -> <<"b","t","n","T","r","a","c","k">>
      [] s = "Track Article" -> <<"T","r","a","c","k"," ","A","r","t","i","c","l","e">>
      [] s = "Go" -> <<"G","o">>
      [] s = "item" -> <<"i","t","e","m">>
      [] s = "article" -> <<"a","r","t","i","c","l","e">>
      [] s = "consignment" -> <<"c","o","n","s","i","g","n","m","e","n","t">>
      [] s = "submit" -> <<"s","u","b","m","i","t">>
      [] s = "search" -> <<"s","e","a","r","c","h">>
      [] s = "go" -> <<"g","o">>
      [] s = "__doPostBack('ctl00$lnkTrack','')" -> <<"_","_","d","o","P","o","s","t","B","a","c","k","(","'","c","t","l","0","0","$","l","n","k","T","r","a","c","k","'",",","'","'",")">>
      [] s = "vs1" -> <<"v","s","1">>
      [] s = "vs2" -> <<"v","s","2">>
      [] s = "vs3" -> <<"v","s","3">>
      [] s = "vs4" -> <<"v","s","4">>
      [] s = "vs5" -> <<"v","s","5">>
      [] s = "vs6" -> <<"v","s","6">>
      [] s = "vs7" -> <<"v","s","7">>
      [] s = "vs8" -> <<"v","s","8">>
      [] s = "ev1" -> <<"e","v","1">>
      [] s = "ctl00$old" -> <<"c","t","l","0","0","$","o","l","d">>
      [] s = "arg1" -> <<"a","r","g","1">>
      [] s = "Request to MIS CEPT timed out." -> <<"R","e","q","u","e","s","t"," ","t","o"," ","M","I","S"," ","C","E","P","T"," ","t","i","m","e","d"," ","o","u","t",".">>
      [] s = "Network error from MIS CEPT: Connection refused" -> <<"N","e","t","w","o","r","k"," ","e","r","r","o","r"," ","f","r","o","m"," ","M","I","S"," ","C","E","P","T",":"," ","C","o","n","n","e","c","t","i","o","n"," ","r","e","f","u","s","e","d">>
      [] s = "Network error from MIS CEPT: 503 Server Error" -> <<"N","e","t","w","o","r","k"," ","e","r","r","o","r"," ","f","r","o","m"," ","M","I","S"," ","C","E","P","T",":"," ","5","0","3"," ","S","e","r","v","e","r"," ","E","r","r","o","r">>
      [] s = "Network error from MIS CEPT: Read timed out." -> <<"N","e","t","w","o","r","k"," ","e","r","r","o","r"," ","f","r","o","m"," ","M","I","S"," ","C","E","P","T",":"," ","R","e","a","d"," ","t","i","m","e","d"," ","o","u","t",".">>
      [] s = "Could not establish session with MIS CEPT" -> <<"C","o","u","l","d"," ","n","o","t"," ","e","s","t","a","b","l","i","s","h"," ","s","e","s","s","i","o","n"," ","w","i","t","h"," ","M","I","S"," ","C","E","P","T">>
      [] s = "Error from MIS CEPT: unexpected failure" -> <<"E","r","r","o","r"," ","f","r","o","m"," ","M","I","S"," ","C","E","P","T",":"," ","u","n","e","x","p","e","c","t","e","d"," ","f","a","i","l","u","r","e">>
      [] s = "MIS CEPT" -> <<"M","I","S"," ","C","E","P","T">>
      [] s = "Read timed out." -> <<"R","e","a","d"," ","t","i","m","e","d"," ","o","u","t",".">>
      [] s = "Connection refused" -> <<"C","o","n","n","e","c","t","i","o","n"," ","r","e","f","u","s","e","d">>
      [] s = "503 Server Error" -> <<"5","0","3"," ","S","e","r","v","e","r"," ","E","r","r","o","r">>
      [] s = "unexpected failure" -> <<"u","n","e","x","p","e","c","t","e","d"," ","f","a","i","l","u","r","e">>

\* the string whose characters are cs
RECURSIVE Unchars(_)
Unchars(cs) == IF cs = <<>> THEN "" ELSE Head(cs) \o Unchars(Tail(cs))

\* needle in hay, both sequences of characters
ContainsSub(hay, needle) ==
    \E i \in 0..(Len(hay) - Len(needle)) :
        SubSeq(hay, i + 1, i + Len(needle)) = needle

\* needle in text.lower(), needle a lower-case literal
InLower(needle, text) == ContainsSub(ToLower(Chars(text)), Chars(needle))

----------------------------------------------------------------------------
(* TrackingEvent and the status classifier.                                *)

\* dataclass TrackingEvent
TrackingEvent(date, time, office, event, location) ==
    [date |-> date, time |-> time, office |-> office, event |-> event,
     location |-> location]

\* IndiaPostTracker._determine_status: the rules are tried in the order of
\* the if/elif chain on events[0].event.lower(); the last branch returns the
\* event text as it is.
DetermineStatusOfOldest(events) ==
    IF events = <<>> THEN "No tracking information available"
    ELSE LET last_event == events[Len(events)]
         IN  IF InLower("deliver", last_event.event) THEN "Delivered"
             ELSE IF InLower("out for delivery", last_event.event) THEN "Out for Delivery"
             ELSE IF InLower("transit", last_event.event)
                     \/ InLower("dispatch", last_event.event) THEN "In Transit"
             ELSE IF InLower("book", last_event.event) THEN "Booked"
             ELSE IF InLower("return", last_event.event) THEN "Returned"
             ELSE last_event.event

_determine_status(events) ==
    IF events = <<>> THEN "No tracking information available"
    ELSE LET last_event == events[1]
         IN  IF InLower("deliver", last_event.event) THEN "Delivered"
             ELSE IF InLower("out for delivery", last_event.event) THEN "Out for Delivery"
             ELSE IF InLower("transit", last_event.event)
                     \/ InLower("dispatch", last_event.event) THEN "In Transit"
             ELSE IF InLower("book", last_event.event) THEN "Booked"
             ELSE IF InLower("return", last_event.event) THEN "Returned"
             ELSE last_event.event

----------------------------------------------------------------------------
(* Documents.  A document is what BeautifulSoup makes of a response body:  *)
(* the elements the code looks for, in document order.  An attribute that  *)
(* is absent and one that is empty are both "", which the code never tells *)
(* apart (it tests them for truth or matches them against a pattern).      *)

\* an <input> or <button> of the tracking form
FormElem(tag, type, name, id, value, onclick) ==
    [tag |-> tag, type |-> type, name |-> name, id |-> id, value |-> value,
     onclick |-> onclick]

\* a <div> or <span> of the result page
Block(tag, id, class, text) == [tag |-> tag, id |-> id, class |-> class, text |-> text]

\* an <li> of a list: the text of its <time>, its <strong> and its styled
\* <div>, each "" when the child element is absent or empty
ListItem(time, strong, detail) == [time |-> time, strong |-> strong, detail |-> detail]

\* a <ul> with its class attribute and its <li> children
ListElem(class, items) == [class |-> class, items |-> items]

\* a <table> with its id, its class and its rows; a row is the sequence of
\* the texts of its cells
TableElem(id, class, rows) == [id |-> id, class |-> class, rows |-> rows]

\* soup.find: the first element of elems that satisfies Match, or none
FindFirst(elems, hits) ==
    IF hits = {} THEN None
    ELSE Some(elems[CHOOSE i \in hits : \A j \in hits : i <= j])

\* re.compile(r'.*(a|b|...).*', re.I) searched in an attribute value
MatchesAnyCI(needles, value) ==
    \E n \in needles : ContainsSub(ToLower(Chars(value)), ToLower(Chars(n)))

----------------------------------------------------------------------------
(* Hidden fields of the tracking form.                                     *)

\* field_names of _extract_hidden_fields
field_names == <<"__VIEWSTATE", "__VIEWSTATEGENERATOR", "__EVENTVALIDATION",
                 "__EVENTTARGET", "__EVENTARGUMENT", "__PREVIOUSPAGE">>

\* IndiaPostTracker._extract_hidden_fields: for each known name the first
\* <input> of that name is looked up, and kept if its value is not empty
_extract_hidden_fields(soup) ==
    LET Field(n) == LET IsField(e) == e.tag = "input" /\ e.name = n
                    IN  FindFirst(soup, {i \in DOMAIN soup : IsField(soup[i])})
        present == {n \in Range(field_names) :
                       /\ ~IsNone(Field(n))
                       /\ Field(n)[1].value # ""}
    IN  [n \in present |-> Field(n)[1].value]

\* hidden_fields.get('__VIEWSTATE') is truthy
HasViewState(hidden_fields) ==
    /\ "__VIEWSTATE" \in DOMAIN hidden_fields
    /\ hidden_fields["__VIEWSTATE"] # ""

----------------------------------------------------------------------------
(* Discovery of the input field and of the submit mechanism, and the body  *)
(* of the POST.                                                            *)

\* patterns of _find_input_field_name: the attribute of an <input
\* type="text"> and the word looked for in it
input_patterns == <<
    [attr |-> "id", word |-> "track"], [attr |-> "id", word |-> "item"],
    [attr |-> "id", word |-> "article"], [attr |-> "id", word |-> "consignment"],
    [attr |-> "name", word |-> "track"], [attr |-> "name", word |-> "item"] >>

\* soup.find('input', {'type': 'text', attr: re.compile(r'.*word.*', re.I)})
FindTextInput(soup, attr, word) ==
    FindFirst(soup, {i \in DOMAIN soup :
                        /\ soup[i].tag = "input" /\ soup[i].type = "text"
                        /\ MatchesAnyCI({word}, soup[i][attr])})

\* if field and field.get('name'): return field['name']
NameOfFound(field, otherwise) ==
    IF ~IsNone(field) /\ field[1].name # "" THEN Some(field[1].name) ELSE otherwise

\* name.startswith('__')
StartsWithDunder(name) ==
    Len(Chars(name)) >= 2 /\ SubSeq(Chars(name), 1, 2) = <<"_", "_">>

\* the fallback of _find_input_field_name: the first text input with a
\* name that does not begin with "__"
FirstPlainTextInput(soup) ==
    NameOfFound(FindFirst(soup, {i \in DOMAIN soup :
                                    /\ soup[i].tag = "input" /\ soup[i].type = "text"
                                    /\ soup[i].name # ""
                                    /\ ~StartsWithDunder(soup[i].name)}),
                None)

\* the loop of _find_input_field_name over its patterns, from pattern k on
RECURSIVE InputByPattern(_, _)
InputByPattern(soup, k) ==
    IF k > Len(input_patterns) THEN FirstPlainTextInput(soup)
    ELSE NameOfFound(FindTextInput(soup, input_patterns[k].attr, input_patterns[k].word),
                     InputByPattern(soup, k + 1))

\* IndiaPostTracker._find_input_field_name
_find_input_field_name(soup) == InputByPattern(soup, 1)

\* patterns of _find_submit_button: tag, type and the words looked for in
\* the value (none: any value, the attribute may be absent)
submit_patterns == <<
    [tag |-> "input", type |-> "submit", words |-> {"track", "article"}],
    [tag |-> "input", type |-> "submit", words |-> {}],
    [tag |-> "input", type |-> "button", words |-> {"track", "submit", "search", "go"}],
    [tag |-> "button", type |-> "submit", words |-> {}] >>

\* soup.find(tag, attrs) for a pattern of _find_submit_button
FindButton(soup, pattern) ==
    FindFirst(soup, {i \in DOMAIN soup :
                        /\ soup[i].tag = pattern.tag /\ soup[i].type = pattern.type
                        /\ (pattern.words = {}
                              \/ MatchesAnyCI(pattern.words, soup[i].value))})

\* the two loops of _find_submit_button over the <input type="submit">
\* elements: the first with a name and a value that has "track" or "article"
\* in it, else the first with a name
NamedSubmitInput(soup) ==
    NameOfFound(
        FindFirst(soup, {i \in DOMAIN soup :
                            /\ soup[i].tag = "input" /\ soup[i].type = "submit"
                            /\ soup[i].name # ""
                            /\ (InLower("track", soup[i].value)
                                  \/ InLower("article", soup[i].value))}),
        NameOfFound(
            FindFirst(soup, {i \in DOMAIN soup :
                                /\ soup[i].tag = "input" /\ soup[i].type = "submit"
                                /\ soup[i].name # ""}),
            None))

\* the loop of _find_submit_button over its patterns, from pattern k on
RECURSIVE ButtonByPattern(_, _)
ButtonByPattern(soup, k) ==
    IF k > Len(submit_patterns) THEN NamedSubmitInput(soup)
    ELSE NameOfFound(FindButton(soup, submit_patterns[k]), ButtonByPattern(soup, k + 1))

\* IndiaPostTracker._find_submit_button
_find_submit_button(soup) == ButtonByPattern(soup, 1)

\* the opening of a postback call in an onclick attribute
postback_call == <<"_","_","d","o","P","o","s","t","B","a","c","k","(","'">>

\* re.search(r"__doPostBack\('([^']+)'", onclick) on the characters cs of
\* onclick: group 1 of the leftmost match, or None
SearchPostBack(cs) ==
    LET n == Len(postback_call)
        Close(i) == LET q == {j \in (i + n)..Len(cs) : cs[j] = "'"}
                    IN  IF q = {} THEN 0 ELSE CHOOSE j \in q : \A k \in q : j <= k
        Hit(i) == /\ i + n - 1 <= Len(cs)
                  /\ SubSeq(cs, i, i + n - 1) = postback_call
                  /\ Close(i) > i + n
        hits == {i \in DOMAIN cs : Hit(i)}
    IN  IF hits = {} THEN None
        ELSE LET i == CHOOSE i \in hits : \A j \in hits : i <= j
             IN  Some(Unchars(SubSeq(cs, i + n, Close(i) - 1)))

\* the loop of _try_track_url over the <button type="submit"> elements: the
\* target of the first onclick that calls __doPostBack
FindPostBackTarget(soup) ==
    LET first == FindFirst(soup, {i \in DOMAIN soup :
                                     /\ soup[i].tag = "button" /\ soup[i].type = "submit"
                                     /\ ~IsNone(SearchPostBack(Chars(soup[i].onclick)))})
    IN  IF IsNone(first) THEN None ELSE SearchPostBack(Chars(first[1].onclick))

\* the names _try_track_url falls back on
default_input_field == "ctl00$ContentPlaceHolder1$txtItemId"
default_submit_button == "ctl00$ContentPlaceHolder1$btnTrack"

\* post_data[k] = v
Put(post_data, k, v) ==
    [x \in DOMAIN post_data \cup {k} |-> IF x = k THEN v ELSE post_data[x]]

\* the last entries of post_data with "if" for "elif": the submit button goes
\* in even when a postback target was found
PutBoth(post_data, dopostback_target, submit_button) ==
    IF ~IsNone(dopostback_target)
    THEN Put(Put(Put(post_data, "__EVENTTARGET", dopostback_target[1]),
                 "__EVENTARGUMENT", ""),
             submit_button, "Track Article")
    ELSE Put(post_data, submit_button, "Track Article")

\* step 5 of _try_track_url, the last entries of post_data: the postback
\* fields if a postback target was found, else the submit button
PutSubmit(post_data, dopostback_target, submit_button) ==
    IF ~IsNone(dopostback_target)
    THEN Put(Put(post_data, "__EVENTTARGET", dopostback_target[1]),
             "__EVENTARGUMENT", "")
    ELSE Put(post_data, submit_button, "Track Article")

\* steps 4 and 5 of _try_track_url: post_data, with what was discovered in
\* the form (input_field and submit_button before the defaults are applied)
BuildPost(hidden_fields, input_field, submit_button, dopostback_target, tracking_number) ==
    [data |-> PutSubmit(Put(hidden_fields,
                            IF IsNone(input_field) THEN default_input_field
                            ELSE input_field[1],
                            Unchars(tracking_number)),
                        dopostback_target,
                        IF IsNone(submit_button) THEN default_submit_button
                        ELSE submit_button[1]),
     input_field |-> input_field,
     submit_button |-> submit_button,
     dopostback_target |-> dopostback_target]

\* the POST of step 6 for the form soup
PostOf(soup, tracking_number) ==
    BuildPost(_extract_hidden_fields(soup), _find_input_field_name(soup),
              _find_submit_button(soup), FindPostBackTarget(soup), tracking_number)

----------------------------------------------------------------------------
(* The result parser.                                                      *)

\* str.split(' ') on a sequence of characters: the pieces between single
\* spaces, empty pieces included
RECURSIVE SplitSpace(_)
SplitSpace(cs) ==
    LET sp == {i \in DOMAIN cs : cs[i] = " "}
    IN  IF sp = {} THEN <<cs>>
        ELSE LET i == CHOOSE i \in sp : \A j \in sp : i <= j
             IN  <<SubSeq(cs, 1, i - 1)>> \o SplitSpace(SubSeq(cs, i + 1, Len(cs)))

\* the elements of seq at the indices idx, in order
Kept(seq, idx) ==
    LET Nth(k) == CHOOSE i \in idx : Cardinality({j \in idx : j < i}) = k - 1
    IN  [k \in 1..Cardinality(idx) |-> seq[Nth(k)]]

\* the words looked for in table ids, table classes and header rows
table_id_words == {"grd", "grid", "gv", "GridView", "track", "event", "result"}
table_class_words == table_id_words \cup {"table"}
header_words == {"date", "time", "office", "event", "status", "location"}

\* header_row.get_text(): the texts of the cells of the row, joined
RECURSIVE RowText(_)
RowText(row) == IF row = <<>> THEN <<>> ELSE Chars(Head(row)) \o RowText(Tail(row))

\* the event of an <li>, parts being the pieces of the text of its <time>
ListEvent(item, parts) ==
    TrackingEvent(IF Len(parts) >= 1 THEN Unchars(parts[1]) ELSE "",
                  IF Len(parts) >= 2 THEN Unchars(parts[2]) ELSE "",
                  "", item.strong,
                  IF item.detail # "" THEN Some(item.detail) ELSE None)

\* list layout of _parse_tracking_table: one event per <li> with a <strong>
ParseListItem(item) ==
    ListEvent(item, IF item.time = "" THEN <<>> ELSE SplitSpace(Chars(item.time)))

\* table layout of _parse_tracking_table: one event per row of >= 3 cells
ParseTableRow(cols) ==
    TrackingEvent(cols[1], cols[2], cols[3],
                  IF Len(cols) > 3 THEN cols[4] ELSE "",
                  IF Len(cols) > 4 THEN Some(cols[5]) ELSE None)

\* table = soup.find('table', pattern) for each pattern in turn, then the
\* search by header: the first of the three that found a table
FirstFound(by_id, by_class, by_header) ==
    IF ~IsNone(by_id) THEN by_id
    ELSE IF ~IsNone(by_class) THEN by_class
    ELSE by_header

\* the table the table layout parses: by id, else by class, else the first
\* table whose first row names a tracking column
FindTrackingTable(tables) ==
    LET ById(t) == MatchesAnyCI(table_id_words, t.id)
        ByClass(t) == MatchesAnyCI(table_class_words, t.class)
        ByHeader(t) == /\ t.rows # <<>>
                       /\ \E w \in header_words :
                             ContainsSub(ToLower(RowText(t.rows[1])), Chars(w))
    IN  FirstFound(FindFirst(tables, {i \in DOMAIN tables : ById(tables[i])}),
                   FindFirst(tables, {i \in DOMAIN tables : ByClass(tables[i])}),
                   FindFirst(tables, {i \in DOMAIN tables : ByHeader(tables[i])}))

\* the events of the <li> items that have a description
ListEvents(items) ==
    LET HasDesc(item) == item.strong # ""
        kept == Kept(items, {i \in DOMAIN items : HasDesc(items[i])})
    IN  [k \in DOMAIN kept |-> ParseListItem(kept[k])]

\* the events of the rows after the header row that have three cells or
\* more and a date or an event
TableEvents(rows) ==
    LET KeepRow(cols) == Len(cols) >= 3 /\ (cols[1] # "" \/ (Len(cols) > 3 /\ cols[4] # ""))
        kept == Kept(rows, {i \in DOMAIN rows : KeepRow(rows[i])})
    IN  [k \in DOMAIN kept |-> ParseTableRow(kept[k])]

\* the two layouts with the table tried when the list gave no event
ParseLayoutsFallsThrough(events_list, table) ==
    IF ~IsNone(events_list) /\ ListEvents(events_list[1].items) # <<>>
    THEN ListEvents(events_list[1].items)
    ELSE IF IsNone(table) THEN <<>>
    ELSE IF table[1].rows = <<>> THEN <<>>
    ELSE TableEvents(Tail(table[1].rows))

\* the two layouts: the events list if there is one, else the table
ParseLayouts(events_list, table) ==
    IF ~IsNone(events_list) THEN ListEvents(events_list[1].items)
    ELSE IF IsNone(table) THEN <<>>
    ELSE IF table[1].rows = <<>> THEN <<>>
    ELSE TableEvents(Tail(table[1].rows))

\* the first <ul> whose class has "events" in it
FindEventsList(lists) ==
    LET IsEventsList(u) == MatchesAnyCI({"events"}, u.class)
    IN  FindFirst(lists, {i \in DOMAIN lists : IsEventsList(lists[i])})

\* the table a parser that takes any table for a tracking table parses
FindAnyTable(tables) ==
    FirstFound(FindTrackingTable(tables), None, FindFirst(tables, DOMAIN tables))

\* IndiaPostTracker._parse_tracking_table
ParseTrackingTableAnyTable(soup) ==
    ParseLayouts(FindEventsList(soup.lists), FindAnyTable(soup.tables))

_parse_tracking_table(soup) ==
    ParseLayouts(FindEventsList(soup.lists), FindTrackingTable(soup.tables))

----------------------------------------------------------------------------
(* The summary extractor.                                                  *)

\* the first index from p on whose character is not whitespace (Len + 1 if none)
SkipSpace(cs, p) ==
    LET rest == {i \in p..Len(cs) : cs[i] \notin Whitespace}
    IN  IF rest = {} THEN Len(cs) + 1 ELSE CHOOSE i \in rest : \A j \in rest : i <= j

\* cs has, from index p on, the characters of shape: "d" is a digit, any
\* other character is itself
ShapeAt(cs, p, shape) ==
    /\ p + Len(shape) - 1 <= Len(cs)
    /\ \A k \in DOMAIN shape :
          IF shape[k] = "d" THEN cs[p + k - 1] \in Digits
          ELSE cs[p + k - 1] = shape[k]

date_shape == <<"d","d","-","d","d","-","d","d","d","d">>
time_shape == <<"d","d",":","d","d",":","d","d">>

\* re.search(r'on\s+(\d{2}-\d{2}-\d{4}\s+\d{2}:\d{2}:\d{2})', label_text) on
\* the characters cs of label_text: group 1 of the leftmost match, or None
SearchDeliveredOn(cs) ==
    LET DateAt(i) == SkipSpace(cs, i + 2)
        TimeAt(i) == SkipSpace(cs, DateAt(i) + Len(date_shape))
        Hit(i) == /\ i + 2 <= Len(cs)
                  /\ cs[i] = "o" /\ cs[i + 1] = "n" /\ cs[i + 2] \in Whitespace
                  /\ ShapeAt(cs, DateAt(i), date_shape)
                  /\ DateAt(i) + Len(date_shape) <= Len(cs)
                  /\ cs[DateAt(i) + Len(date_shape)] \in Whitespace
                  /\ ShapeAt(cs, TimeAt(i), time_shape)
        hits == {i \in DOMAIN cs : Hit(i)}
    IN  IF hits = {} THEN None
        ELSE LET i == CHOOSE i \in hits : \A j \in hits : i <= j
             IN  Some(Unchars(SubSeq(cs, DateAt(i), TimeAt(i) + Len(time_shape) - 1)))

DeliveredOnMatch(label_text) == SearchDeliveredOn(Chars(label_text))

\* not info[field]: the field is None or the empty string
Missing(o) == IsNone(o) \/ o = Some("")

\* the loop over the header cells of the article table: a later column
\* whose header names the same field replaces an earlier one
RECURSIVE MapArticleColumns(_, _, _, _)
MapArticleColumns(headers, cells, i, info) ==
    IF i > Len(headers) THEN info
    ELSE MapArticleColumns(headers, cells, i + 1,
            IF i > Len(cells) THEN info
            ELSE IF InLower("origin", headers[i])
                 THEN [info EXCEPT !.origin = Some(cells[i])]
            ELSE IF InLower("destination", headers[i])
                 THEN [info EXCEPT !.destination = Some(cells[i])]
            ELSE info)

\* the article table: origin and destination from the columns of its
\* second row, by the headers of its first
ArticleInfo(info, article_table) ==
    IF ~IsNone(article_table) /\ Len(article_table[1].rows) >= 2
    THEN MapArticleColumns(article_table[1].rows[1], article_table[1].rows[2], 1, info)
    ELSE info

\* if delivered_match: info['delivered_on'] = delivered_match.group(1)
DeliveredInfo(info, delivered_match) ==
    IF IsNone(delivered_match) THEN info
    ELSE [info EXCEPT !.delivered_on = delivered_match]

\* the delivery label: delivered_on from its text
LabelInfo(info, delivery_label) ==
    IF IsNone(delivery_label) THEN info
    ELSE DeliveredInfo(info, DeliveredOnMatch(delivery_label[1].text))

\* one field of the fallback, filled whenever its expression finds something
FallbackFieldOverwrites(info, found, field) ==
    IF ~IsNone(found[field])
    THEN [info EXCEPT ![field] = found[field]]
    ELSE info

\* one field of the free-text fallback: filled if it is missing and its
\* expression finds something
FallbackField(info, found, field) ==
    IF Missing(info[field]) /\ ~IsNone(found[field])
    THEN [info EXCEPT ![field] = found[field]]
    ELSE info

\* the free-text fallback, entered when origin or destination is missing
FallbackInfo(info, found) ==
    IF Missing(info.origin) \/ Missing(info.destination)
    THEN FallbackField(FallbackField(FallbackField(info, found, "origin"),
                                     found, "destination"),
                       found, "booked_on")
    ELSE info

\* info as _extract_summary_info first sets it
NoInfo ==
    [origin |-> None, destination |-> None, booked_on |-> None,
     delivered_on |-> None, article_type |-> None]

\* IndiaPostTracker._extract_summary_info.  soup.found is what the regular
\* expressions of the free-text fallback capture in soup.get_text(), after
\* strip(): None where the expression finds nothing.
_extract_summary_info(soup) ==
    LET IsArticle(t) == t.id = "example"
        IsLabel(b) == b.tag = "span" /\ MatchesAnyCI({"label"}, b.id)
    IN  FallbackInfo(
            LabelInfo(
                ArticleInfo(NoInfo,
                    FindFirst(soup.tables,
                              {i \in DOMAIN soup.tables : IsArticle(soup.tables[i])})),
                FindFirst(soup.blocks,
                          {i \in DOMAIN soup.blocks : IsLabel(soup.blocks[i])})),
            soup.found)

----------------------------------------------------------------------------
(* TrackingResult, validation and demo mode.                               *)

\* dataclass TrackingResult; the optional fields are None or Some(value)
TrackingResult(tracking_number, status, events, origin, destination, booked_on, delivered_on, article_type, error, source) ==
    [tracking_number |-> tracking_number, status |-> status, events |-> events,
     origin |-> origin, destination |-> destination, booked_on |-> booked_on,
     delivered_on |-> delivered_on, article_type |-> article_type,
     error |-> error, source |-> source]

\* the result of a failed step: status, message and source, no events
ErrorResult(tracking_number, status, error, source) ==
    TrackingResult(tracking_number, status, <<>>, None, None, None, None, None,
                   Some(error), source)

\* the message of the validation failure in track
InvalidFormatError ==
    "Invalid tracking number format. Expected format: XX123456789XX (e.g., LP951627598IN)"

\* the events of _get_demo_tracking
demo_events == <<
    TrackingEvent("17-Jan-2025", "10:30", "MUMBAI GPO", "Item Delivered", Some("Mumbai")),
    TrackingEvent("16-Jan-2025", "08:15", "MUMBAI GPO", "Out for Delivery", Some("Mumbai")),
    TrackingEvent("15-Jan-2025", "14:20", "MUMBAI NSH", "Item Received", Some("Mumbai")),
    TrackingEvent("14-Jan-2025", "09:00", "DELHI NSH", "Item Dispatched", Some("Delhi")),
    TrackingEvent("13-Jan-2025", "16:45", "DELHI GPO", "Item Booked", Some("Delhi")) >>

\* IndiaPostTracker._get_demo_tracking
GetDemoTrackingByCountry(tracking_number) ==
    TrackingResult(tracking_number, "Delivered", demo_events,
                   Some(Unchars(SubSeq(tracking_number, Len(tracking_number) - 1,
                                       Len(tracking_number)))),
                   Some("Mumbai"), Some("13-Jan-2025"), Some("17-Jan-2025"),
                   Some("Speed Post"), None, Some("demo"))

_get_demo_tracking(tracking_number) ==
    TrackingResult(tracking_number, "Delivered", demo_events, Some("Delhi"),
                   Some("Mumbai"), Some("13-Jan-2025"), Some("17-Jan-2025"),
                   Some("Speed Post"), None, Some("demo"))

----------------------------------------------------------------------------
(* The remote site.  Each network leg ends in one of these ways.           *)

Ok == [kind |-> "ok", msg |-> ""]
NotIssued == [kind |-> "not_issued", msg |-> ""]
\* requests.exceptions.Timeout
TimedOut == [kind |-> "timeout", msg |-> "Read timed out."]
\* another requests.exceptions.RequestException raised by get or post
ConnectionFailed == [kind |-> "connection", msg |-> "Connection refused"]
\* requests.exceptions.HTTPError raised by raise_for_status
BadStatus == [kind |-> "http_status", msg |-> "503 Server Error"]
\* an exception that is not a RequestException
OtherFailure == [kind |-> "other", msg |-> "unexpected failure"]

Failures == {TimedOut, ConnectionFailed, BadStatus, OtherFailure}

\* a request the tracker sends
Request(leg, url) == [leg |-> leg, url |-> url]

\* the POST of step 6: post is what BuildPost made
PostRequest(url, post) ==
    [leg |-> "post", url |-> url, data |-> post.data,
     input_field |-> post.input_field, submit_button |-> post.submit_button,
     dopostback_target |-> post.dopostback_target]

\* one call of self.session.get or self.session.post
IssueTwice(reqs, request) == reqs \o <<request, request>>

Issue(reqs, request) == Append(reqs, request)

\* IndiaPostTracker.TRACKING_URLS
TRACKING_URLS == <<
    [name |-> "MIS CEPT",
     base_url |-> "https://mis.cept.gov.in/",
     tracking_url |-> "https://mis.cept.gov.in/General/IPS_Track.aspx",
     method |-> "aspnet_form"] >>

\* the document of a leg that was not fetched
NoFound == [origin |-> None, destination |-> None, booked_on |-> None]
NoFormDoc == <<>>
NoResultDoc == [blocks |-> <<>>, lists |-> <<>>, tables |-> <<>>, found |-> NoFound]

\* how the site answers one attempt: the outcome of each leg and the
\* documents of the form GET and of the POST
SiteAnswer(bootstrap, form, form_doc, post, result_doc) ==
    [bootstrap |-> bootstrap, form |-> form, form_doc |-> form_doc,
     post |-> post, result_doc |-> result_doc]

----------------------------------------------------------------------------
(* One attempt against one backend.                                        *)

\* what a call or an attempt did: whether it raised (and the message of the
\* exception), the result it returned, the flag it leaves, the requests it
\* sent, the part of the site's answer it got to see, and what each attempt
\* of the call did
Done(raised, exc, res, initialized, reqs, seen, tries) ==
    [raised |-> raised, exc |-> exc, result |-> res,
     session_initialized |-> initialized, requests |-> reqs, seen |-> seen,
     attempts |-> tries]

NoResult == TrackingResult(<<>>, "", <<>>, None, None, None, None, None, None, None)

\* IndiaPostTracker._initialize_session: the GET of the base URL followed by
\* raise_for_status; any exception is swallowed and leaves the flag alone
InitializeSessionForgets(initialized, answer) ==
    [ok |-> answer.kind = "ok", session_initialized |-> initialized]

_initialize_session(initialized, answer) ==
    IF answer.kind = "ok"
    THEN [ok |-> TRUE, session_initialized |-> TRUE]
    ELSE [ok |-> FALSE, session_initialized |-> initialized]

\* the except clauses of _try_track_url, for an exception of the form GET or
\* of the POST: Timeout, then RequestException, then Exception
ExceptClausesWithoutCatchAll(tracking_number, name, failure, initialized, reqs, seen) ==
    CASE failure.kind = "timeout" ->
            Done(FALSE, "",
                 ErrorResult(tracking_number, "Error",
                     "Request to " \o name \o " timed out.", Some(name)),
                 initialized, reqs, seen, <<>>)
      [] failure.kind \in {"connection", "http_status"} ->
            Done(FALSE, "",
                 ErrorResult(tracking_number, "Error",
                     "Network error from " \o name \o ": " \o failure.msg, Some(name)),
                 initialized, reqs, seen, <<>>)
      [] OTHER ->
            Done(TRUE, failure.msg, NoResult, initialized, reqs, seen, <<>>)

ExceptClausesRequestExceptionFirst(tracking_number, name, failure, initialized, reqs, seen) ==
    CASE failure.kind \in {"timeout", "connection", "http_status"} ->
            Done(FALSE, "",
                 ErrorResult(tracking_number, "Error",
                     "Network error from " \o name \o ": " \o failure.msg, Some(name)),
                 initialized, reqs, seen, <<>>)
      [] OTHER ->
            Done(FALSE, "",
                 ErrorResult(tracking_number, "Error",
                     "Error from " \o name \o ": " \o failure.msg, Some(name)),
                 initialized, reqs, seen, <<>>)

\* the except clauses with the session given up on any failure
ExceptClausesResetSession(tracking_number, name, failure, initialized, reqs, seen) ==
    CASE failure.kind = "timeout" ->
            Done(FALSE, "",
                 ErrorResult(tracking_number, "Error",
                     "Request to " \o name \o " timed out.", Some(name)),
                 FALSE, reqs, seen, <<>>)
      [] failure.kind \in {"connection", "http_status"} ->
            Done(FALSE, "",
                 ErrorResult(tracking_number, "Error",
                     "Network error from " \o name \o ": " \o failure.msg, Some(name)),
                 FALSE, reqs, seen, <<>>)
      [] OTHER ->
            Done(FALSE, "",
                 ErrorResult(tracking_number, "Error",
                     "Error from " \o name \o ": " \o failure.msg, Some(name)),
                 FALSE, reqs, seen, <<>>)

ExceptClauses(tracking_number, name, failure, initialized, reqs, seen) ==
    CASE failure.kind = "timeout" ->
            Done(FALSE, "",
                 ErrorResult(tracking_number, "Error",
                     "Request to " \o name \o " timed out.", Some(name)),
                 initialized, reqs, seen, <<>>)
      [] failure.kind \in {"connection", "http_status"} ->
            Done(FALSE, "",
                 ErrorResult(tracking_number, "Error",
                     "Network error from " \o name \o ": " \o failure.msg, Some(name)),
                 initialized, reqs, seen, <<>>)
      [] OTHER ->
            Done(FALSE, "",
                 ErrorResult(tracking_number, "Error",
                     "Error from " \o name \o ": " \o failure.msg, Some(name)),
                 initialized, reqs, seen, <<>>)

\* step 7 of _try_track_url: the result made of the answer to the POST, the
\* text of an error element coming before everything else
ResultOfPageKeepsEvents(tracking_number, name, error_div, events, summary) ==
    TrackingResult(tracking_number,
                   IF ~IsNone(error_div) /\ error_div[1].text # ""
                   THEN "Not Found" ELSE _determine_status(events),
                   events,
                   summary.origin, summary.destination, summary.booked_on,
                   summary.delivered_on, summary.article_type,
                   IF ~IsNone(error_div) /\ error_div[1].text # ""
                   THEN Some(error_div[1].text) ELSE None,
                   Some(name))

ResultOfPage(tracking_number, name, error_div, events, summary) ==
    IF ~IsNone(error_div) /\ error_div[1].text # ""
    THEN ErrorResult(tracking_number, "Not Found", error_div[1].text, None)
    ELSE TrackingResult(tracking_number, _determine_status(events), events,
                        summary.origin, summary.destination, summary.booked_on,
                        summary.delivered_on, summary.article_type, None, Some(name))

\* soup.find(['div', 'span'], {'class': re.compile(r'.*error.*', re.I)})
FindErrorDiv(blocks) ==
    LET IsError(b) == b.tag \in {"div", "span"} /\ MatchesAnyCI({"error"}, b.class)
    IN  FindFirst(blocks, {i \in DOMAIN blocks : IsError(blocks[i])})

\* steps 6 and 7 of _try_track_url: the outcome of the POST and the parsing
\* of its answer; reqs holds the POST
ParseAnswer(tracking_number, url_config, initialized, reqs, site, seen) ==
    IF site.post.kind # "ok"
    THEN ExceptClauses(tracking_number, url_config.name, site.post, initialized,
                       reqs, [seen EXCEPT !.post = site.post])
    ELSE Done(FALSE, "",
              ResultOfPage(tracking_number, url_config.name,
                           FindErrorDiv(site.result_doc.blocks),
                           _parse_tracking_table(site.result_doc),
                           _extract_summary_info(site.result_doc)),
              initialized, reqs,
              [seen EXCEPT !.post = site.post, !.result_doc = site.result_doc],
              <<>>)

\* steps 4 to 7 of _try_track_url: the POST is built, sent and its answer
\* parsed
SubmitAndParse(tracking_number, url_config, initialized, reqs, site, seen) ==
    ParseAnswer(tracking_number, url_config, initialized,
                Issue(reqs, PostRequest(url_config.tracking_url,
                                        PostOf(site.form_doc, tracking_number))),
                site, seen)

\* steps 2 and 3 of _try_track_url: the GET of the tracking page and the
\* check of its hidden fields, which clears the flag when __VIEWSTATE is missing
LoadFormKeepsSession(tracking_number, url_config, initialized, reqs, site, seen) ==
    LET name == url_config.name
        reqs2 == Issue(reqs, Request("form", url_config.tracking_url))
        seen2 == [seen EXCEPT !.form = site.form]
        seen3 == [seen2 EXCEPT !.form_doc = site.form_doc]
        hidden_fields == _extract_hidden_fields(site.form_doc)
    IN  IF site.form.kind # "ok"
        THEN ExceptClauses(tracking_number, name, site.form, initialized, reqs2, seen2)
        ELSE IF ~HasViewState(hidden_fields)
        THEN Done(FALSE, "",
                  ErrorResult(tracking_number, "Error",
                      "Could not extract form state from " \o name
                          \o ". Session may have expired.",
                      Some(name)),
                  initialized, reqs2, seen3, <<>>)
        ELSE SubmitAndParse(tracking_number, url_config, initialized, reqs2, site, seen3)

LoadForm(tracking_number, url_config, initialized, reqs, site, seen) ==
    LET name == url_config.name
        reqs2 == Issue(reqs, Request("form", url_config.tracking_url))
        seen2 == [seen EXCEPT !.form = site.form]
        seen3 == [seen2 EXCEPT !.form_doc = site.form_doc]
        hidden_fields == _extract_hidden_fields(site.form_doc)
    IN  IF site.form.kind # "ok"
        THEN ExceptClauses(tracking_number, name, site.form, initialized, reqs2, seen2)
        ELSE IF ~HasViewState(hidden_fields)
        THEN Done(FALSE, "",
                  ErrorResult(tracking_number, "Error",
                      "Could not extract form state from " \o name
                          \o ". Session may have expired.",
                      Some(name)),
                  FALSE, reqs2, seen3, <<>>)
        ELSE SubmitAndParse(tracking_number, url_config, initialized, reqs2, site, seen3)

\* what an attempt has seen of the answer of the site before its first request
NothingSeen == SiteAnswer(NotIssued, NotIssued, NoFormDoc, NotIssued, NoResultDoc)

\* _try_track_url without the test of what _initialize_session returned
TryTrackUrlIgnoresBootstrap(tracking_number, url_config, initialized, site) ==
    LET boot == _initialize_session(initialized, site.bootstrap)
        reqs1 == Issue(<<>>, Request("bootstrap", url_config.base_url))
        seen1 == [NothingSeen EXCEPT !.bootstrap = site.bootstrap]
    IN  LoadForm(tracking_number, url_config,
                 IF initialized THEN initialized ELSE boot.session_initialized,
                 IF initialized THEN <<>> ELSE reqs1,
                 site,
                 IF initialized THEN NothingSeen ELSE seen1)

\* IndiaPostTracker._try_track_url
_try_track_url(tracking_number, url_config, initialized, site) ==
    LET name == url_config.name
        boot == _initialize_session(initialized, site.bootstrap)
        reqs1 == Issue(<<>>, Request("bootstrap", url_config.base_url))
        seen1 == [NothingSeen EXCEPT !.bootstrap = site.bootstrap]
    IN  IF ~initialized /\ ~boot.ok
        THEN Done(FALSE, "",
                  ErrorResult(tracking_number, "Error",
                      "Could not establish session with " \o name, Some(name)),
                  boot.session_initialized, reqs1, seen1, <<>>)
        ELSE LoadForm(tracking_number, url_config,
                      IF initialized THEN initialized ELSE boot.session_initialized,
                      IF initialized THEN <<>> ELSE reqs1,
                      site,
                      IF initialized THEN NothingSeen ELSE seen1)

----------------------------------------------------------------------------
(* IndiaPostTracker.track                                                  *)

\* the message of the result returned when every backend failed
AllFailedErrorOmitsLast(last_error) ==
    "Could not retrieve tracking information. The India Post tracking website may require CAPTCHA or be temporarily unavailable."

AllFailedError(last_error) ==
    "Could not retrieve tracking information. The India Post tracking website may require CAPTCHA or be temporarily unavailable. Last error: "
        \o (IF IsNone(last_error) THEN "None" ELSE last_error[1])

\* what track remembers of an attempt
Attempt(a) == [raised |-> a.raised, exc |-> a.exc, result |-> a.result]

\* the loop of track over the list urls (self.TRACKING_URLS) from backend i
\* on; sites[i] is the answer of the site to the attempt against backend i.
\* AfterAttempt is the body of the loop once the attempt a against backend i
\* is over.
RECURSIVE TryEachUrl(_, _, _, _, _, _, _, _, _)
RECURSIVE AfterAttempt(_, _, _, _, _, _, _, _, _)
RECURSIVE AfterAttemptReturnsAny(_, _, _, _, _, _, _, _, _)

\* the body of the loop with a return of whatever result the attempt gave
AfterAttemptReturnsAny(urls, i, tracking_number, sites, last_error, reqs, seen, tries, a) ==
    IF a.raised
    THEN TryEachUrl(urls, i + 1, tracking_number, a.session_initialized, sites,
                    Some(a.exc), reqs \o a.requests, Append(seen, a.seen),
                    Append(tries, Attempt(a)))
    ELSE Done(FALSE, "", a.result, a.session_initialized,
              reqs \o a.requests, Append(seen, a.seen), Append(tries, Attempt(a)))

AfterAttempt(urls, i, tracking_number, sites, last_error, reqs, seen, tries, a) ==
    IF a.raised
    THEN TryEachUrl(urls, i + 1, tracking_number, a.session_initialized, sites,
                    Some(a.exc), reqs \o a.requests, Append(seen, a.seen),
                    Append(tries, Attempt(a)))
    ELSE IF Missing(a.result.error)
    THEN Done(FALSE, "", a.result, a.session_initialized,
              reqs \o a.requests, Append(seen, a.seen), Append(tries, Attempt(a)))
    ELSE TryEachUrl(urls, i + 1, tracking_number, a.session_initialized, sites,
                    a.result.error, reqs \o a.requests, Append(seen, a.seen),
                    Append(tries, Attempt(a)))

TryEachUrl(urls, i, tracking_number, initialized, sites, last_error, reqs, seen, tries) ==
    IF i > Len(urls)
    THEN Done(FALSE, "",
              ErrorResult(tracking_number, "Error", AllFailedError(last_error),
                          Some("none")),
              initialized, reqs, seen, tries)
    ELSE AfterAttempt(urls, i, tracking_number, sites, last_error, reqs, seen, tries,
                      _try_track_url(tracking_number, urls[i], initialized, sites[i]))

\* IndiaPostTracker.track
track(tracking_number, demo_mode, initialized, sites) ==
    LET normalized == Normalize(tracking_number)
    IN  IF ~ReMatch(normalized)
        THEN Done(FALSE, "",
                  TrackingResult(normalized, "Error", <<>>, None, None, None, None,
                                 None, Some(InvalidFormatError), None),
                  initialized, <<>>, <<>>, <<>>)
        ELSE IF demo_mode
        THEN Done(FALSE, "", _get_demo_tracking(normalized), initialized,
                  <<>>, <<>>, <<>>)
        ELSE TryEachUrl(TRACKING_URLS, 1, normalized, initialized, sites, None,
                        <<>>, <<>>, <<>>)

----------------------------------------------------------------------------
(* The inputs of the model.                                                *)

\* LP951627598IN, the example of the documentation
BaseNumber == <<"L","P","9","5","1","6","2","7","5","9","8","I","N">>
\* another well-formed number
OtherNumber == <<"R","X","0","0","0","0","0","0","0","0","1","D","E">>

\* the characters put in place of a character of the example: one of every
\* kind but its own
Replacements(c) ==
    IF c \in Digits THEN {"a", "A", "-", " "} ELSE {"7", "-", " "}

\* the characters added at an end of the example
EndChars == {"a", "A", "7", "-"}

\* the example with one character replaced, one character removed or one
\* character added at an end
Variants ==
    UNION {{[BaseNumber EXCEPT ![i] = c] : c \in Replacements(BaseNumber[i])} :
              i \in DOMAIN BaseNumber}
    \cup {SubSeq(BaseNumber, 1, i - 1) \o SubSeq(BaseNumber, i + 1, Len(BaseNumber)) :
             i \in DOMAIN BaseNumber}
    \cup {BaseNumber \o <<c>> : c \in EndChars}
    \cup {<<c>> \o BaseNumber : c \in EndChars}

TrackInputs ==
    Variants
    \cup {BaseNumber, OtherNumber, ToLower(BaseNumber),
          <<" ", "\t">> \o ToLower(BaseNumber) \o <<"\r", "\n">>,
          BaseNumber \o <<"\n">>,
          BaseNumber \o <<"\n", "X">>,
          <<"b","a","d">>, <<>>, <<" ">>}

\* pages the form GET can be answered with
FormFull == <<
    FormElem("input", "hidden", "__VIEWSTATE", "__VIEWSTATE", "vs1", ""),
    FormElem("input", "hidden", "__EVENTVALIDATION", "__EVENTVALIDATION", "ev1", ""),
    FormElem("input", "text", "ctl00$txtItemId", "txtItemId", "", ""),
    FormElem("input", "submit", "ctl00$btnTrack", "btnTrack", "Track Article", "") >>
FormPostback == <<
    FormElem("input", "hidden", "__VIEWSTATE", "", "vs2", ""),
    FormElem("input", "hidden", "__EVENTTARGET", "", "", ""),
    FormElem("button", "submit", "", "", "", "__doPostBack('ctl00$lnkTrack','')") >>
FormNoViewState == <<
    FormElem("input", "hidden", "__EVENTVALIDATION", "", "ev1", ""),
    FormElem("input", "text", "ctl00$txtItemId", "txtItemId", "", ""),
    FormElem("input", "submit", "ctl00$btnTrack", "btnTrack", "Track Article", "") >>
FormEmptyViewState == <<
    FormElem("input", "hidden", "__VIEWSTATE", "", "", ""),
    FormElem("input", "text", "ctl00$txtItemId", "txtItemId", "", "") >>
FormShadowedViewState == <<
    FormElem("input", "hidden", "__VIEWSTATE", "", "", ""),
    FormElem("input", "hidden", "__VIEWSTATE", "", "vs3", "") >>
FormButtonNamedViewState == <<
    FormElem("button", "submit", "__VIEWSTATE", "", "vs4", ""),
    FormElem("input", "text", "ctl00$txtItemId", "txtItemId", "", "") >>
FormBlank == <<>>
FormPostbackWithTarget == <<
    FormElem("input", "hidden", "__VIEWSTATE", "", "vs5", ""),
    FormElem("input", "hidden", "__EVENTTARGET", "", "ctl00$old", ""),
    FormElem("input", "hidden", "__EVENTARGUMENT", "", "arg1", ""),
    FormElem("input", "text", "ctl00$txtItemId", "txtItemId", "", ""),
    FormElem("input", "submit", "ctl00$btnTrack", "btnTrack", "Track Article", ""),
    FormElem("button", "submit", "", "", "", "__doPostBack('ctl00$lnkTrack','')") >>
FormInputNamedViewState == <<
    FormElem("input", "text", "__VIEWSTATE", "txtTrack", "vs6", ""),
    FormElem("input", "submit", "ctl00$btnTrack", "btnTrack", "Go", "") >>
FormSubmitNamedValidation == <<
    FormElem("input", "hidden", "__VIEWSTATE", "", "vs7", ""),
    FormElem("input", "submit", "__EVENTVALIDATION", "", "Go", "") >>
FormBare == <<
    FormElem("input", "hidden", "__VIEWSTATE", "", "vs8", "") >>

FormDocs == {FormFull, FormPostback, FormNoViewState, FormEmptyViewState,
             FormShadowedViewState, FormButtonNamedViewState, FormBlank,
             FormPostbackWithTarget, FormInputNamedViewState,
             FormSubmitNamedValidation, FormBare}

\* pages the POST can be answered with
DocBlank == NoResultDoc
DocLayoutTable ==
    [blocks |-> <<Block("div", "", "alert", "Notice")>>,
     lists |-> <<ListElem("list-group", <<ListItem("14-01-2026", "Item Booked", "")>>)>>,
     tables |-> <<TableElem("layout", "", <<<<"Name", "Value">>, <<"a", "b", "c">>>>)>>,
     found |-> [origin |-> Some("Delhi"), destination |-> None,
                booked_on |-> Some("13/01/2026")]]
DocError ==
    [blocks |-> <<Block("div", "", "alert", "Notice"),
                  Block("div", "", "error", "No record found")>>,
     lists |-> <<>>, tables |-> <<>>, found |-> NoFound]
DocErrorWithEvents ==
    [blocks |-> <<Block("span", "", "ErrorMessage", "Service unavailable")>>,
     lists |-> <<ListElem("events", <<ListItem("15-01-2026 09:10:00", "In Transit", "")>>)>>,
     tables |-> <<>>, found |-> NoFound]
DocEmptyError ==
    [blocks |-> <<Block("div", "", "error", ""),
                  Block("div", "", "error", "No record found")>>,
     lists |-> <<ListElem("events", <<ListItem("15-01-2026 09:10:00", "In Transit", "")>>)>>,
     tables |-> <<>>, found |-> NoFound]
DocList ==
    [blocks |-> <<Block("span", "ctl00_Label1", "",
                        "Item delivered at , Canada on 16-01-2026 22:41:03")>>,
     lists |-> <<ListElem("list-group", <<ListItem("", "Item Booked", "")>>),
                 ListElem("timeline events-list",
                     <<ListItem("16-01-2026 22:41:03", "Item Delivered", "Toronto"),
                       ListItem("13-01-2026  07:00:00", "Aircraft take off",
                                "Flight - AI0187 (DEL to YYZ)"),
                       ListItem("14-01-2026", "", "Delhi"),
                       ListItem("", "Item Booked", "")>>)>>,
     tables |-> <<TableElem("example", "", <<<<"Origin", "Destination">>,
                                             <<"Delhi", "Toronto">>>>)>>,
     found |-> [origin |-> Some("Canada"), destination |-> Some("Canada"),
                booked_on |-> None]]
DocListWithoutEvents ==
    [blocks |-> <<Block("span", "lblStatus", "", "Item in transit")>>,
     lists |-> <<ListElem("EVENTS", <<ListItem("14-01-2026", "", "")>>)>>,
     tables |-> <<TableElem("GridView1", "", <<<<"Date", "Time", "Office", "Event">>,
                     <<"16-01-2026", "22:41:03", "Delhi", "Item Dispatched">>>>)>>,
     found |-> NoFound]
DocTable ==
    [blocks |-> <<>>, lists |-> <<>>,
     tables |-> <<TableElem("layout", "", <<>>),
                  TableElem("ctl00_ContentPlaceHolder1_gvTrack", "",
                     <<<<"Date", "Time", "Office", "Event">>,
                       <<"16-01-2026", "22:41:03", "Toronto", "Out for delivery">>,
                       <<"15-01-2026", "09:10:00", "Delhi", "Item Booked", "Delhi">>>>)>>,
     found |-> [origin |-> None, destination |-> Some("Toronto"), booked_on |-> None]]
DocHeaderTable ==
    [blocks |-> <<>>, lists |-> <<>>,
     tables |-> <<TableElem("data", "", <<<<"Name", "Value">>>>),
                  TableElem("", "", <<<<"Date", "Time", "Office", "Event">>,
                       <<"16-01-2026", "22:41:03", "Delhi">>,
                       <<"", "", "Delhi", "">>,
                       <<"15-01-2026", "09:10:00">>,
                       <<"", "09:10:00", "Delhi", "Return to sender", "">>>>)>>,
     found |-> NoFound]
DocArticleOrigin ==
    [blocks |-> <<Block("span", "ctl00_Label1", "",
                        "Item delivered at , Canada on 16-01-2026 22:41:03")>>,
     lists |-> <<>>,
     tables |-> <<TableElem("example", "", <<<<"Origin">>, <<"Delhi">>>>)>>,
     found |-> [origin |-> Some("Canada"), destination |-> Some("Toronto"),
                booked_on |-> Some("13/01/2026")]]
DocArticleEmptyCell ==
    [blocks |-> <<>>, lists |-> <<>>,
     tables |-> <<TableElem("example", "", <<<<"Origin", "Destination">>,
                                             <<"", "Toronto">>>>)>>,
     found |-> [origin |-> Some("Delhi"), destination |-> Some("Canada"),
                booked_on |-> None]]
DocClassTable ==
    [blocks |-> <<>>, lists |-> <<>>,
     tables |-> <<TableElem("", "table table-striped", <<<<"Name", "Value">>,
                       <<"14-01-2026", "10:00:00", "Delhi", "Item Received">>>>)>>,
     found |-> NoFound]

ResultDocs == {DocBlank, DocLayoutTable, DocError, DocErrorWithEvents, DocEmptyError,
               DocList, DocListWithoutEvents, DocTable, DocHeaderTable, DocClassTable,
               DocArticleOrigin, DocArticleEmptyCell}

\* the page served carries a usable __VIEWSTATE: its first <input> of that
\* name has a value
ServesViewState(form_doc) ==
    LET named == {i \in DOMAIN form_doc :
                     form_doc[i].tag = "input" /\ form_doc[i].name = "__VIEWSTATE"}
    IN  /\ named # {}
        /\ form_doc[CHOOSE i \in named : \A j \in named : i <= j].value # ""

\* the pages that carry a usable __VIEWSTATE, and those that do not
ServingForms == {d \in FormDocs : ServesViewState(d)}
StaleForms == {d \in FormDocs : ~ServesViewState(d)}

\* the answers to the POST met with every form, and those met with
\* FormFull only: the POST is answered without regard to the form it
\* submits, so every answer is met with one form and every form with a few
\* answers
AnswersToEveryForm ==
    {[post |-> TimedOut, result_doc |-> NoResultDoc]}
    \cup {[post |-> Ok, result_doc |-> r] : r \in {DocBlank, DocTable}}
AnswersToFormFull ==
    {[post |-> p, result_doc |-> NoResultDoc] : p \in Failures}
    \cup {[post |-> Ok, result_doc |-> r] : r \in ResultDocs}

\* the answers of the site to one attempt.  A leg the attempt cannot reach
\* (the bootstrap of an initialized tracker, the POST of a page without a
\* usable __VIEWSTATE) gets a single answer.
AnswersFrom(boots) ==
    {SiteAnswer(b, Ok, NoFormDoc, Ok, NoResultDoc) : b \in boots \ {Ok}}
    \cup {SiteAnswer(Ok, f, NoFormDoc, Ok, NoResultDoc) : f \in Failures}
    \cup {SiteAnswer(Ok, Ok, d, Ok, NoResultDoc) : d \in StaleForms}
    \cup {SiteAnswer(Ok, Ok, d, a.post, a.result_doc) :
             d \in ServingForms, a \in AnswersToEveryForm}
    \cup {SiteAnswer(Ok, Ok, FormFull, a.post, a.result_doc) : a \in AnswersToFormFull}

\* one answer for each backend of TRACKING_URLS
SitesOfInitialized == [DOMAIN TRACKING_URLS -> AnswersFrom({Ok})]
SitesOfFresh == [DOMAIN TRACKING_URLS -> AnswersFrom({Ok} \cup Failures)]
Sites(initialized) == IF initialized THEN SitesOfInitialized ELSE SitesOfFresh

----------------------------------------------------------------------------
(* The tracker as a state machine.                                         *)

NoCall == [tracking_number |-> <<>>, demo_mode |-> FALSE,
           was_initialized |-> FALSE, seen |-> <<>>]

\* the history variable after the answers seen: a bootstrap answered OK sets
\* it, a tracking page served without a __VIEWSTATE value clears it
RECURSIVE EstablishedAfter(_, _)
EstablishedAfter(e, seen) ==
    IF seen = <<>> THEN e
    ELSE LET a == Head(seen)
             e1 == IF a.bootstrap.kind = "ok" THEN TRUE ELSE e
             e2 == IF a.form.kind = "ok" /\ ~ServesViewState(a.form_doc) THEN FALSE ELSE e1
         IN  EstablishedAfter(e2, Tail(seen))

\* IndiaPostTracker.__init__
TrackerInit ==
    /\ session_initialized = FALSE
    /\ outcome = "none"
    /\ call = NoCall
    /\ requests = <<>>
    /\ attempts = <<>>
    /\ result = NoResult
    /\ established = FALSE

\* no bulk request
NoRequest == [tracking_numbers |-> <<>>, demo |-> FALSE, flightOnly |-> FALSE]

\* /tmp/tracking_response.html before any attempt
NoFile == [open_by |-> {}, content |-> {}, written_by |-> {}]

\* no bulk request is being served
BulkIdle ==
    /\ bulk_request = NoRequest
    /\ tasks = <<>>
    /\ trackers = <<>>
    /\ debug_file = NoFile
    /\ bulk_response = None

\* nothing summarised, nothing extracted
FlightIdle ==
    /\ fl_events = <<>>
    /\ fl_summary = None
    /\ fl_location = None
    /\ fl_info = None

Init ==
    /\ TrackerInit
    /\ cls_events = <<>>
    /\ cls_status = None
    /\ BulkIdle
    /\ FlightIdle

\* the state after a call that did d
Finish(tracking_number, demo_mode, d) ==
    /\ session_initialized' = d.session_initialized
    /\ outcome' = IF d.raised THEN "raised" ELSE "returned"
    /\ call' = [tracking_number |-> tracking_number, demo_mode |-> demo_mode,
                was_initialized |-> session_initialized, seen |-> d.seen]
    /\ requests' = d.requests
    /\ attempts' = d.attempts
    /\ result' = d.result
    /\ established' = EstablishedAfter(established, d.seen)
    /\ UNCHANGED <<clsVars, bulkVars, flightVars>>

\* the answers of the site a call can meet: none when the call is over
\* before the loop over the backends
SitesFor(tracking_number, demo_mode, initialized) ==
    IF ~ReMatch(Normalize(tracking_number)) \/ demo_mode
    THEN {<<>>}
    ELSE Sites(initialized)

\* one call tracker.track(tracking_number, demo_mode)
Track ==
    \E tracking_number \in TrackInputs, demo_mode \in BOOLEAN :
        \E sites \in SitesFor(tracking_number, demo_mode, session_initialized) :
            Finish(tracking_number, demo_mode,
                   track(tracking_number, demo_mode, session_initialized, sites))

Next == Track

Spec == Init /\ [][Next]_vars

----------------------------------------------------------------------------
(* The loop of track over a list of more than one backend.  TRACKING_URLS  *)
(* has a single entry; here the same loop runs over a list with a second   *)
(* entry after it, so that its continue and its return can be told apart.  *)

\* a list of two backends: the configured one and one more of the same method
TwoBackends ==
    TRACKING_URLS \o
    << [name |-> "India Post",
        base_url |-> "https://www.indiapost.gov.in/",
        tracking_url |-> "https://www.indiapost.gov.in/tracking.aspx",
        method |-> "aspnet_form"] >>

\* the answers of a backend to an attempt: results without an error, a page
\* with an error, and a failure at each leg
BackendAnswers ==
    {SiteAnswer(Ok, Ok, FormFull, Ok, DocList),
     SiteAnswer(Ok, Ok, FormFull, Ok, DocTable),
     SiteAnswer(Ok, Ok, FormFull, Ok, DocError),
     SiteAnswer(ConnectionFailed, Ok, NoFormDoc, Ok, NoResultDoc),
     SiteAnswer(Ok, TimedOut, NoFormDoc, Ok, NoResultDoc),
     SiteAnswer(Ok, Ok, FormBare, Ok, NoResultDoc),
     SiteAnswer(Ok, Ok, FormFull, BadStatus, NoResultDoc),
     SiteAnswer(ConnectionFailed, Ok, FormFull, TimedOut, NoResultDoc)}

\* one call of track with a well-formed number, not a demo call, the loop
\* running over TwoBackends
TrackOverTwo ==
    \E tracking_number \in {BaseNumber, OtherNumber} :
        \E sites \in [DOMAIN TwoBackends -> BackendAnswers] :
            Finish(tracking_number, FALSE,
                   TryEachUrl(TwoBackends, 1, tracking_number, session_initialized,
                              sites, None, <<>>, <<>>, <<>>))

BackendsNext == TrackOverTwo

SpecBackends == Init /\ [][BackendsNext]_vars

----------------------------------------------------------------------------
(* The status classifier on its own: _determine_status applied to event    *)
(* sequences, and re-applied after an edit that keeps the first event.     *)

\* the longest event sequence classified
MaxEvents == 3

\* event descriptions that exercise each rule of the classifier, alone and
\* in combination
StatusTexts == {"Item Delivered", "Out for delivery", "OUT FOR DELIVERY",
                "Item Dispatched", "In Transit", "Item Booked", "Return to sender",
                "Item Received", "Bag dispatched after booking", "Booked item returned"}

EventOf(text) == TrackingEvent("", "", "", text, None)

EventSeqs == UNION {[1..n -> {EventOf(t) : t \in StatusTexts}] : n \in 0..MaxEvents}

StatusInit ==
    /\ TrackerInit
    /\ cls_events \in EventSeqs
    /\ cls_status = None
    /\ BulkIdle
    /\ FlightIdle

\* status = self._determine_status(events)
Classify ==
    /\ cls_status' = Some(_determine_status(cls_events))
    /\ UNCHANGED <<cls_events, trackerVars, bulkVars, flightVars>>

\* the same call after an event other than the first was replaced
ChangeLater ==
    \E i \in 2..Len(cls_events), t \in StatusTexts :
        /\ cls_events' = [cls_events EXCEPT ![i] = EventOf(t)]
        /\ cls_status' = Some(_determine_status(cls_events'))
        /\ UNCHANGED <<trackerVars, bulkVars, flightVars>>

\* the same call after an event was added behind the first
AddLater ==
    /\ Len(cls_events) >= 1
    /\ Len(cls_events) < MaxEvents
    /\ \E i \in 1..Len(cls_events), t \in StatusTexts :
        /\ cls_events' = SubSeq(cls_events, 1, i) \o <<EventOf(t)>>
                            \o SubSeq(cls_events, i + 1, Len(cls_events))
        /\ cls_status' = Some(_determine_status(cls_events'))
        /\ UNCHANGED <<trackerVars, bulkVars, flightVars>>

\* the same call after an event other than the first was removed
RemoveLater ==
    \E i \in 2..Len(cls_events) :
        /\ cls_events' = SubSeq(cls_events, 1, i - 1)
                            \o SubSeq(cls_events, i + 1, Len(cls_events))
        /\ cls_status' = Some(_determine_status(cls_events'))
        /\ UNCHANGED <<trackerVars, bulkVars, flightVars>>

StatusNext == Classify \/ ChangeLater \/ AddLater \/ RemoveLater

SpecStatus == StatusInit /\ [][StatusNext]_vars

-----------------------------------------------------------------------------
(* flight_utils.py.  A location is a string; the patterns are matched on    *)
(* its characters.                                                          *)

Letters == UpperLetters \cup LowerLetters
\* \w of a pattern
WordChars == Letters \cup Digits \cup {"_"}
\* the class [A-Za-z\s]
LetterOrSpace == Letters \cup Whitespace
\* the class after the first code of the route pattern: the hyphen and the
\* three characters U+00E2, U+20AC, U+201C that stand in the source where
\* an en dash was meant; each is one character of a location
DashClass == {"-", "U+00E2", "U+20AC", "U+201C"}

\* the number of characters from position p on that are in the class
RECURSIVE RunFrom(_, _, _)
RunFrom(cs, p, class) ==
    IF p > Len(cs) THEN 0
    ELSE IF cs[p] \notin class THEN 0
    ELSE 1 + RunFrom(cs, p + 1, class)

\* the word, given in lower case, is at position p in whatever case
WordAt(cs, p, word) ==
    /\ p >= 1
    /\ p + Len(word) - 1 <= Len(cs)
    /\ ToLower(SubSeq(cs, p, p + Len(word) - 1)) = word

\* the least and the greatest of a set of numbers
Least(S) == CHOOSE x \in S : \A y \in S : x <= y
Greatest(S) == CHOOSE x \in S : \A y \in S : x >= y

\* event.get("location") or ""
LocationOf(event) == IF IsNone(event.location) THEN "" ELSE event.location[1]

\* is_flight_event without the lower-casing
IsFlightEventCaseSensitive(event) ==
    ContainsSub(Chars(LocationOf(event)), Chars("flight"))

\* is_flight_event
is_flight_event(event) == InLower("flight", LocationOf(event))

\* filter_flight_events
filter_flight_events(events) == SelectSeq(events, is_flight_event)

\* \b before position p
Boundary(cs, p) ==
    (p > 1 /\ p - 1 <= Len(cs) /\ cs[p - 1] \in WordChars)
        # (p >= 1 /\ p <= Len(cs) /\ cs[p] \in WordChars)

\* [A-Z]{2,3}\d{1,4}: the numbers of letters and of digits in the order a
\* greedy match tries them
NumberTries == << <<3, 4>>, <<3, 3>>, <<3, 2>>, <<3, 1>>,
                  <<2, 4>>, <<2, 3>>, <<2, 2>>, <<2, 1>> >>

\* \b[A-Z]{l}\d{d}\b matches at p
NumberFits(cs, p, l, d) ==
    /\ p + l + d - 1 <= Len(cs)
    /\ Boundary(cs, p)
    /\ \A i \in p..(p + l - 1) : cs[i] \in UpperLetters
    /\ \A i \in (p + l)..(p + l + d - 1) : cs[i] \in Digits
    /\ Boundary(cs, p + l + d)

\* the first try that fits at p
FirstNumberTry(cs, p) ==
    Least({k \in DOMAIN NumberTries :
              NumberFits(cs, p, NumberTries[k][1], NumberTries[k][2])})

\* the text matched at p by the try k
NumberTextAt(cs, p, k) ==
    Unchars(SubSeq(cs, p, p + NumberTries[k][1] + NumberTries[k][2] - 1))

\* the positions where the pattern of the flight number matches
NumberStarts(cs) ==
    {p \in DOMAIN cs : \E k \in DOMAIN NumberTries :
        NumberFits(cs, p, NumberTries[k][1], NumberTries[k][2])}

\* re.search(r'\b([A-Z]{2,3}\d{1,4})\b', location.upper()), group 1
SearchFlightNumber(cs) ==
    IF NumberStarts(cs) = {} THEN None
    ELSE Some(NumberTextAt(cs, Least(NumberStarts(cs)),
                           FirstNumberTry(cs, Least(NumberStarts(cs)))))

\* ^([A-Za-z\s]+?)(?:\s+flight|\s+FL) with IGNORECASE matches with a first
\* group of k characters: whitespace follows it, and "fl" the whitespace
AirlineFits(cs, k) ==
    /\ RunFrom(cs, 1, LetterOrSpace) >= k
    /\ RunFrom(cs, k + 1, Whitespace) >= 1
    /\ WordAt(cs, k + 1 + RunFrom(cs, k + 1, Whitespace), <<"f", "l">>)

\* airline_match.group(1).strip(); the first group is the shortest that fits
SearchAirline(cs) ==
    LET ks == {k \in DOMAIN cs : AirlineFits(cs, k)}
    IN  IF ks = {} THEN None
        ELSE Some(Unchars(Strip(SubSeq(cs, 1, Least(ks)))))

\* \s+to\s+([A-Za-z\s]+) matches from position p on: whitespace, "to",
\* whitespace, and a character of the class left for the last group
ToFits(cs, p) ==
    LET w == RunFrom(cs, p, Whitespace)
        t == p + w
        v == RunFrom(cs, t + 2, Whitespace)
    IN  /\ w >= 1
        /\ WordAt(cs, t, <<"t", "o">>)
        /\ v >= 1
        /\ (RunFrom(cs, t + 2 + v, LetterOrSpace) >= 1 \/ v >= 2)

\* where the last group starts when \s+to\s+([A-Za-z\s]+) matches from p:
\* the whitespace before it is greedy and gives back one character at most
DestinationStart(cs, p) ==
    LET t == p + RunFrom(cs, p, Whitespace)
        v == RunFrom(cs, t + 2, Whitespace)
    IN  IF RunFrom(cs, t + 2 + v, LetterOrSpace) >= 1 THEN t + 2 + v
        ELSE t + 2 + v - 1

\* from\s+([A-Za-z\s]+?)\s+to\s+([A-Za-z\s]+) matches with "from" at f,
\* a characters of whitespace after it and a first group of b characters
FromToFits(cs, f, a, b) ==
    /\ WordAt(cs, f, <<"f", "r", "o", "m">>)
    /\ a >= 1
    /\ a <= RunFrom(cs, f + 4, Whitespace)
    /\ b >= 1
    /\ b <= RunFrom(cs, f + 4 + a, LetterOrSpace)
    /\ ToFits(cs, f + 4 + a + b)

\* the pattern matches with "from" at f
FromToAt(cs, f) ==
    /\ WordAt(cs, f, <<"f", "r", "o", "m">>)
    /\ \E a \in 1..RunFrom(cs, f + 4, Whitespace) :
          \E b \in 1..RunFrom(cs, f + 4 + a, LetterOrSpace) : FromToFits(cs, f, a, b)

\* the positions of "from" where the pattern matches
FromToStarts(cs) == {f \in DOMAIN cs : FromToAt(cs, f)}

\* the groups of the match with "from" at f: the whitespace is greedy, the
\* first group lazy, the last greedy
FromToGroups(cs, f) ==
    LET a == Greatest({x \in 1..RunFrom(cs, f + 4, Whitespace) :
                          \E y \in 1..RunFrom(cs, f + 4 + x, LetterOrSpace) :
                              FromToFits(cs, f, x, y)})
        b == Least({y \in 1..RunFrom(cs, f + 4 + a, LetterOrSpace) :
                       FromToFits(cs, f, a, y)})
        d == DestinationStart(cs, f + 4 + a + b)
    IN  [origin |-> Some(Unchars(Strip(SubSeq(cs, f + 4 + a, f + 4 + a + b - 1)))),
         destination |->
             Some(Unchars(Strip(SubSeq(cs, d, d + RunFrom(cs, d, LetterOrSpace) - 1))))]

\* ([A-Za-z]{3})\s*[-...]\s*([A-Za-z]{3}) matches at p
PairFits(cs, p) ==
    LET w == RunFrom(cs, p + 3, Whitespace)
        v == RunFrom(cs, p + 4 + w, Whitespace)
    IN  /\ RunFrom(cs, p, Letters) >= 3
        /\ p + 3 + w <= Len(cs)
        /\ cs[p + 3 + w] \in DashClass
        /\ RunFrom(cs, p + 4 + w + v, Letters) >= 3

\* the positions where the pattern of the code pair matches
PairStarts(cs) == {p \in DOMAIN cs : PairFits(cs, p)}

\* the groups of the match at p
PairGroups(cs, p) ==
    LET w == RunFrom(cs, p + 3, Whitespace)
        q == p + 4 + w + RunFrom(cs, p + 4 + w, Whitespace)
    IN  [origin |-> Some(Unchars(SubSeq(cs, p, p + 2))),
         destination |-> Some(Unchars(SubSeq(cs, q, q + 2)))]

NoRoute == [origin |-> None, destination |-> None]

\* the route with the two patterns tried in the other order
SearchRoutePairFirst(cs) ==
    IF PairStarts(cs) # {} THEN PairGroups(cs, Least(PairStarts(cs)))
    ELSE IF FromToStarts(cs) # {} THEN FromToGroups(cs, Least(FromToStarts(cs)))
    ELSE NoRoute

\* origin and destination: "from X to Y", else a pair of codes
SearchRoute(cs) ==
    IF FromToStarts(cs) # {} THEN FromToGroups(cs, Least(FromToStarts(cs)))
    ELSE IF PairStarts(cs) # {} THEN PairGroups(cs, Least(PairStarts(cs)))
    ELSE NoRoute

\* the dictionary extract_flight_info returns
FlightInfo(flightNumber, airline, route) ==
    [flightNumber |-> flightNumber, airline |-> airline,
     origin |-> route.origin, destination |-> route.destination]

\* extract_flight_info
extract_flight_info(location) ==
    IF location = "" THEN None
    ELSE Some(FlightInfo(SearchFlightNumber(ToUpper(Chars(location))),
                         SearchAirline(Chars(location)),
                         SearchRoute(Chars(location))))

\* the key with the location as it is written
FlightKeyIsLocation(flight_info, location) == location

\* flight_info.get("flightNumber") or location.lower()
FlightKey(flight_info, location) ==
    IF IsNone(flight_info.flightNumber)
    THEN Unchars(ToLower(Chars(location)))
    ELSE flight_info.flightNumber[1]

\* one turn of the loop of generate_flight_summary; the state is the list
\* flights and the set seen_flights
AddFlight(state, flight_info, location) ==
    IF IsNone(flight_info) THEN state
    ELSE IF FlightKey(flight_info[1], location) \in state.seen_flights THEN state
    ELSE [flights |-> Append(state.flights, flight_info[1]),
          seen_flights |-> state.seen_flights \cup {FlightKey(flight_info[1], location)}]

\* the loop over flight_events
RECURSIVE UniqueFlights(_, _)
UniqueFlights(flight_events, state) ==
    IF flight_events = <<>> THEN state
    ELSE UniqueFlights(Tail(flight_events),
             AddFlight(state, extract_flight_info(LocationOf(Head(flight_events))),
                       LocationOf(Head(flight_events))))

\* the dictionary generate_flight_summary returns, given the filtered events
SummaryOf(flight_events) ==
    [hasFlightEvents |-> Len(flight_events) > 0,
     flightEventCount |-> Len(flight_events),
     flights |-> UniqueFlights(flight_events,
                     [flights |-> <<>>, seen_flights |-> {}]).flights]

\* generate_flight_summary
generate_flight_summary(events) == SummaryOf(filter_flight_events(events))

-----------------------------------------------------------------------------
(* main.py: the bulk endpoint.  Every number of the request is tracked by   *)
(* _sync_track on a thread of the executor; the threads interleave at the  *)
(* steps below.                                                             *)

\* the longest request modelled; BulkTrackingRequest allows up to ten numbers
MaxBulk == 2

\* executor = ThreadPoolExecutor(max_workers=5)
max_workers == 5

\* the numbers of a request: one well-formed, in lower case, and one malformed
BulkNumbers == {ToLower(BaseNumber), <<"b", "a", "d">>}

\* BulkTrackingRequest
BulkRequests ==
    {[tracking_numbers |-> tns, demo |-> demo, flightOnly |-> flightOnly] :
        tns \in UNION {[1..n -> BulkNumbers] : n \in 1..MaxBulk},
        demo \in BOOLEAN, flightOnly \in BOOLEAN}

\* the answers of the site an attempt of a bulk request meets: a page with
\* events, one of them of a flight; a POST that times out; a bootstrap GET
\* that is refused
BulkAnswers ==
    {SiteAnswer(Ok, Ok, FormFull, Ok, DocList),
     SiteAnswer(Ok, Ok, FormFull, TimedOut, NoResultDoc),
     SiteAnswer(ConnectionFailed, Ok, NoFormDoc, Ok, NoResultDoc)}

BulkSitesFor(tracking_number, demo_mode) ==
    IF ~ReMatch(Normalize(tracking_number)) \/ demo_mode
    THEN {<<>>}
    ELSE [DOMAIN TRACKING_URLS -> BulkAnswers]

\* a task of the request before its thread starts
PendingTask ==
    [pc |-> "pending", tracker |-> 0, sites |-> <<>>, raised |-> FALSE,
     exc |-> "", result |-> NoResult]

\* class TrackingResponse
TrackingResponse(success, tracking_number, status, events, r, flightSummary) ==
    [success |-> success, tracking_number |-> tracking_number, status |-> status,
     events |-> events, origin |-> r.origin, destination |-> r.destination,
     booked_on |-> r.booked_on, delivered_on |-> r.delivered_on,
     article_type |-> r.article_type, error |-> r.error, source |-> r.source,
     flightSummary |-> flightSummary]

\* the fields TrackingResponse defaults to None, with this error
Defaults(error) ==
    [origin |-> None, destination |-> None, booked_on |-> None,
     delivered_on |-> None, article_type |-> None, error |-> error,
     source |-> None]

\* the body of the loop of track_bulk_shipments for a result that is an
\* exception
ResponseOfException(tn, exc) ==
    TrackingResponse(FALSE, tn, "Error", <<>>, Defaults(Some(exc)), None)

\* the body of the loop with the events filtered whatever flightOnly
ResponseOfResultFiltersAlways(r, flightOnly) ==
    TrackingResponse(IsNone(r.error), r.tracking_number, r.status,
                     filter_flight_events(r.events),
                     r, Some(generate_flight_summary(r.events)))

\* the body of the loop for a TrackingResult
ResponseOfResult(r, flightOnly) ==
    TrackingResponse(IsNone(r.error), r.tracking_number, r.status,
                     IF flightOnly THEN filter_flight_events(r.events) ELSE r.events,
                     r, Some(generate_flight_summary(r.events)))

\* one turn of the loop: the response appended and the counters
BulkStep(acc, tn, task, flightOnly) ==
    IF task.raised
    THEN [results |-> Append(acc.results, ResponseOfException(tn, task.exc)),
          successful |-> acc.successful, failed |-> acc.failed + 1]
    ELSE [results |-> Append(acc.results, ResponseOfResult(task.result, flightOnly)),
          successful |-> acc.successful + (IF IsNone(task.result.error) THEN 1 ELSE 0),
          failed |-> acc.failed + (IF IsNone(task.result.error) THEN 0 ELSE 1)]

\* for tn, result in zip(request.tracking_numbers, tracking_results), from
\* the i-th pair on
RECURSIVE BulkLoop(_, _, _, _, _)
BulkLoop(i, tns, tracking_results, flightOnly, acc) ==
    IF i > Len(tns) \/ i > Len(tracking_results) THEN acc
    ELSE BulkLoop(i + 1, tns, tracking_results, flightOnly,
                  BulkStep(acc, tns[i], tracking_results[i], flightOnly))

\* class BulkTrackingResponse, from what the loop left
BulkTrackingResponse(acc, total) ==
    [status_code |-> 200, success |-> acc.failed = 0, results |-> acc.results,
     total |-> total, successful |-> acc.successful, failed |-> acc.failed]

\* general_exception_handler
InternalServerError ==
    [status_code |-> 500, success |-> FALSE, results |-> <<>>, total |-> 0,
     successful |-> 0, failed |-> 0]

\* asyncio.gather(*tasks) without return_exceptions: the first exception is
\* raised to the caller
GatherRaising(finished) ==
    IF \E i \in DOMAIN finished : finished[i].raised
    THEN [raised |-> TRUE, values |-> <<>>]
    ELSE [raised |-> FALSE, values |-> finished]

\* asyncio.gather(*tasks, return_exceptions=True): the results and the
\* exceptions, in the order of the tasks
gather(finished) == [raised |-> FALSE, values |-> finished]

\* track_bulk_shipments once the tasks are gathered
BulkResponseOf(request, gathered) ==
    IF gathered.raised THEN InternalServerError
    ELSE BulkTrackingResponse(
             BulkLoop(1, request.tracking_numbers, gathered.values, request.flightOnly,
                      [results |-> <<>>, successful |-> 0, failed |-> 0]),
             Len(request.tracking_numbers))

\* track_bulk_shipments
track_bulk_shipments(request, finished) == BulkResponseOf(request, gather(finished))

\* the call got an answer to its POST, which it writes to the debug file
PostAnswered(d) ==
    /\ d.seen # <<>>
    /\ \E i \in DOMAIN d.requests : d.requests[i].leg = "post"
    /\ d.seen[Len(d.seen)].post.kind = "ok"

\* the tasks whose thread is at work
Running == {i \in DOMAIN tasks : tasks[i].pc \in {"started", "saving", "parsing"}}

BulkInit ==
    /\ TrackerInit
    /\ cls_events = <<>>
    /\ cls_status = None
    /\ FlightIdle
    /\ bulk_request \in BulkRequests
    /\ tasks = [i \in DOMAIN bulk_request.tracking_numbers |-> PendingTask]
    /\ trackers = <<>>
    /\ debug_file = NoFile
    /\ bulk_response = None

\* get_tracker: a new IndiaPostTracker
get_tracker == [session_initialized |-> FALSE]

\* _sync_track starts on a free thread: tracker = get_tracker()
StartTrack(i) ==
    /\ tasks[i].pc = "pending"
    /\ Cardinality(Running) < max_workers
    /\ trackers' = Append(trackers, get_tracker)
    /\ tasks' = [tasks EXCEPT ![i].pc = "started", ![i].tracker = Len(trackers) + 1]
    /\ UNCHANGED <<bulk_request, debug_file, bulk_response>>
    /\ UNCHANGED <<trackerVars, clsVars, flightVars>>

\* the state after tracker.track(...) of task i did d against sites, up to
\* the return or to the opening of the debug file
AfterTrack(i, sites, d) ==
    /\ trackers' = [trackers EXCEPT ![tasks[i].tracker].session_initialized =
                                        d.session_initialized]
    /\ tasks' = [tasks EXCEPT ![i].pc = IF PostAnswered(d) THEN "saving" ELSE "done",
                              ![i].sites = sites,
                              ![i].raised = d.raised,
                              ![i].exc = d.exc,
                              ![i].result = d.result]
    /\ debug_file' = IF PostAnswered(d)
                     THEN [debug_file EXCEPT !.open_by = @ \cup {i}, !.content = {}]
                     ELSE debug_file
    /\ UNCHANGED <<bulk_request, bulk_response>>
    /\ UNCHANGED <<trackerVars, clsVars, flightVars>>

\* tracker.track(tracking_number, demo_mode) in the thread of task i
RunTrack(i) ==
    /\ tasks[i].pc = "started"
    /\ \E sites \in BulkSitesFor(bulk_request.tracking_numbers[i], bulk_request.demo) :
          AfterTrack(i, sites,
                     track(bulk_request.tracking_numbers[i], bulk_request.demo,
                           trackers[tasks[i].tracker].session_initialized, sites))

\* f.write(response.text) and the end of the with block
SaveResponse(i) ==
    /\ tasks[i].pc = "saving"
    /\ tasks' = [tasks EXCEPT ![i].pc = "parsing"]
    /\ debug_file' = [open_by |-> debug_file.open_by \ {i},
                      content |-> debug_file.content \cup {i},
                      written_by |-> debug_file.written_by \cup {i}]
    /\ UNCHANGED <<bulk_request, trackers, bulk_response>>
    /\ UNCHANGED <<trackerVars, clsVars, flightVars>>

\* the rest of _try_track_url and of track: the result is returned
ReturnResult(i) ==
    /\ tasks[i].pc = "parsing"
    /\ tasks' = [tasks EXCEPT ![i].pc = "done"]
    /\ UNCHANGED <<bulk_request, trackers, debug_file, bulk_response>>
    /\ UNCHANGED <<trackerVars, clsVars, flightVars>>

\* the thread of task i ends with an exception instead
WorkerRaises(i) ==
    /\ tasks[i].pc = "started"
    /\ tasks' = [tasks EXCEPT ![i].pc = "done", ![i].raised = TRUE,
                              ![i].exc = "worker failed"]
    /\ UNCHANGED <<bulk_request, trackers, debug_file, bulk_response>>
    /\ UNCHANGED <<trackerVars, clsVars, flightVars>>

\* await asyncio.gather(...) returns and the response is built
Respond ==
    /\ bulk_response = None
    /\ \A i \in DOMAIN tasks : tasks[i].pc = "done"
    /\ bulk_response' = Some(track_bulk_shipments(bulk_request, tasks))
    /\ UNCHANGED <<bulk_request, tasks, trackers, debug_file>>
    /\ UNCHANGED <<trackerVars, clsVars, flightVars>>

BulkNext ==
    \/ \E i \in DOMAIN tasks : StartTrack(i)
    \/ \E i \in DOMAIN tasks : RunTrack(i)
    \/ \E i \in DOMAIN tasks : SaveResponse(i)
    \/ \E i \in DOMAIN tasks : ReturnResult(i)
    \/ \E i \in DOMAIN tasks : WorkerRaises(i)
    \/ Respond

SpecBulk == BulkInit /\ [][BulkNext]_vars

----------------------------------------------------------------------------
(* main.py: the two lookups of the REST layer.  GET /track/{number} runs   *)
(* one track_async as the bulk endpoint runs one per number; its request   *)
(* is held as a request of one number.                                     *)

\* track_shipment once track_async is over: the response, or the
\* HTTPException of the except clause
track_shipment(task, flightOnly) ==
    IF task.raised
    THEN [status_code |-> 500, detail |-> task.exc]
    ELSE [status_code |-> 200,
          response |->
              TrackingResponse(IsNone(task.result.error), task.result.tracking_number,
                               task.result.status,
                               IF flightOnly THEN filter_flight_events(task.result.events)
                               ELSE task.result.events,
                               task.result,
                               Some(generate_flight_summary(task.result.events)))]

\* await track_async(...) returns or raises and track_shipment answers
RespondSingle ==
    /\ bulk_response = None
    /\ Len(bulk_request.tracking_numbers) = 1
    /\ tasks[1].pc = "done"
    /\ bulk_response' = Some(track_shipment(tasks[1], bulk_request.flightOnly))
    /\ UNCHANGED <<bulk_request, tasks, trackers, debug_file>>
    /\ UNCHANGED <<trackerVars, clsVars, flightVars>>

RestNext == BulkNext \/ RespondSingle

SpecRest == BulkInit /\ [][RestNext]_vars

-----------------------------------------------------------------------------
(* flight_utils.py on its own: generate_flight_summary applied once to an   *)
(* event sequence, or extract_flight_info applied once to a location.       *)

\* the longest event sequence summarised
MaxFlightEvents == 3

\* locations of events: with and without "flight", in either case, with and
\* without a flight number, some with the same number or the same text up to
\* case; and no location
EventLocations ==
    {None, Some("Mumbai"), Some("Flight - AI0187 (DEL to YYZ)"),
     Some("flight ai0187"), Some("Cargo flight DEL - YYZ"),
     Some("CARGO FLIGHT DEL - YYZ"), Some("Inflight hub")}

\* the events summarised: one of each location, and a second one of the
\* documented location at another time
FlightEventOf(time, location) ==
    TrackingEvent("11-01-2026", time, "DIMC NEW DELHI", "Aircraft take off", location)

SummaryEvents ==
    {FlightEventOf("07:27:00", l) : l \in EventLocations}
    \cup {FlightEventOf("19:40:00", Some("Flight - AI0187 (DEL to YYZ)"))}

SummaryInputs == UNION {[1..n -> SummaryEvents] : n \in 0..MaxFlightEvents}

\* the locations extract_flight_info is applied to
ExtractLocations ==
    {"", "Flight - AI0187 (DEL to YYZ)", "from Delhi to Mumbai", "DEL-YYZ",
     "DEL-YYZ from Delhi to Mumbai", "AI101 DEL-YYZ", "Mumbai",
     "Air India Flight AI101 from Delhi to Toronto", "Cargo flight DEL - YYZ"}

FlightInit ==
    /\ TrackerInit
    /\ cls_events = <<>>
    /\ cls_status = None
    /\ BulkIdle
    /\ FlightIdle

\* flight_summary_data = generate_flight_summary(result.events)
Summarize ==
    \E events \in SummaryInputs :
        /\ fl_summary = None
        /\ fl_location = None
        /\ fl_events' = events
        /\ fl_summary' = Some(generate_flight_summary(events))
        /\ UNCHANGED <<fl_location, fl_info>>
        /\ UNCHANGED <<trackerVars, clsVars, bulkVars>>

\* extract_flight_info(location)
Extract ==
    \E location \in ExtractLocations :
        /\ fl_summary = None
        /\ fl_location = None
        /\ fl_location' = Some(location)
        /\ fl_info' = extract_flight_info(location)
        /\ UNCHANGED <<fl_events, fl_summary>>
        /\ UNCHANGED <<trackerVars, clsVars, bulkVars>>

FlightNext == Summarize \/ Extract

SpecFlight == FlightInit /\ [][FlightNext]_vars

----------------------------------------------------------------------------
(* Properties.  They are stated on the tracking number as the caller gave  *)
(* it, on the answers of the site and on what came back, not on the        *)
(* operators above.                                                        *)

\* a call has been made
Called == outcome # "none"

\* the number of the last call, trimmed and upper-cased
CallNumber == ToUpper(Strip(call.tracking_number))

\* s is two capital letters, nine digits, two capital letters
WellFormed(s) ==
    /\ Len(s) = 13
    /\ \A i \in {1, 2, 12, 13} : s[i] \in UpperLetters
    /\ \A i \in 3..11 : s[i] \in Digits

\* the last call had a well-formed number and was not a demo call
NetworkCall == Called /\ WellFormed(CallNumber) /\ ~call.demo_mode

\* the last call had a well-formed number and was a demo call
DemoCall == Called /\ WellFormed(CallNumber) /\ call.demo_mode

\* the last call sent a request of this leg
Sent(leg) == \E i \in DOMAIN requests : requests[i].leg = leg

\* C1: track rejects exactly the numbers whose trimmed, upper-cased form is
\* not two letters, nine digits, two letters: such a call, demo or not,
\* returns status "Error" with no events and an error, sends no request and
\* leaves the session flag as it was; a number of the right form is never
\* answered with the validation error.
C1_ValidationRejectsExactlyMalformed ==
    Called =>
        IF ~WellFormed(CallNumber)
        THEN /\ outcome = "returned"
             /\ result.status = "Error"
             /\ result.events = <<>>
             /\ ~IsNone(result.error)
             /\ requests = <<>>
             /\ session_initialized = call.was_initialized
        ELSE result.error # Some(InvalidFormatError)

\* a 13-character number with a character of the wrong kind was rejected on a
\* tracker whose session was initialized
C1_Witness ==
    /\ Called
    /\ ~WellFormed(CallNumber)
    /\ Len(call.tracking_number) = 13
    /\ call.was_initialized
    /\ ~call.demo_mode
    /\ result.error = Some(InvalidFormatError)

\* C2, the fields of a demo result: a demo call with a well-formed number
\* sends no request, leaves the session flag as it was and returns the five
\* canned events, status "Delivered", origin "Delhi", destination "Mumbai",
\* source "demo" and no error, with the number echoed.
C2_DemoFields ==
    DemoCall =>
        /\ outcome = "returned"
        /\ requests = <<>>
        /\ session_initialized = call.was_initialized
        /\ result.tracking_number = CallNumber
        /\ Len(result.events) = 5
        /\ result.status = "Delivered"
        /\ result.origin = Some("Delhi")
        /\ result.destination = Some("Mumbai")
        /\ result.source = Some("demo")
        /\ IsNone(result.error)

\* C2, from one demo call to the next: the results differ in nothing but the
\* echoed number, and are equal when the numbers are.
C2_DemoSame ==
    DemoCall /\ DemoCall' =>
        /\ [result' EXCEPT !.tracking_number = <<>>]
              = [result EXCEPT !.tracking_number = <<>>]
        /\ (CallNumber' = CallNumber => result' = result)

\* C2: every demo call with a well-formed number returns the same constant
\* result but for the echoed number, whatever the number and whatever calls
\* came before, without touching the network or the session.
C2_DemoIsConstant == []C2_DemoFields /\ [][C2_DemoSame]_vars

\* a demo call for the second number on a tracker whose session an earlier
\* call had initialized
C2_Witness ==
    /\ DemoCall
    /\ CallNumber = OtherNumber
    /\ call.was_initialized
    /\ Len(result.events) = 5

\* a TrackingResult with an error has no events
ErrorHasNoEvents(r) == ~IsNone(r.error) => r.events = <<>>

\* C3: every TrackingResult produced by a call, the one track returns and
\* the one each attempt returns, has no events when it has an error.
C3_ErrorImpliesNoEvents ==
    Called /\ outcome = "returned" =>
        /\ ErrorHasNoEvents(result)
        /\ \A i \in DOMAIN attempts :
              ~attempts[i].raised => ErrorHasNoEvents(attempts[i].result)

\* the result page carried an error message and an events list, and the
\* call returned an error
C3_Witness ==
    /\ NetworkCall
    /\ Len(call.seen) = 1
    /\ call.seen[1].post.kind = "ok"
    /\ call.seen[1].result_doc = DocErrorWithEvents
    /\ ~IsNone(result.error)
    /\ attempts[1].result.status = "Not Found"

\* every attempt of the last call ended with an error or raised
AllAttemptsFailed ==
    /\ Len(attempts) = Len(TRACKING_URLS)
    /\ \A i \in DOMAIN attempts :
          attempts[i].raised \/ ~IsNone(attempts[i].result.error)

\* the error of the last attempt of the last call
LastAttemptError ==
    LET a == attempts[Len(attempts)]
    IN  IF a.raised THEN a.exc ELSE a.result.error[1]

\* the text that precedes the last error in the error of a total failure
TotalFailurePrefix ==
    "Could not retrieve tracking information. The India Post tracking website may require CAPTCHA or be temporarily unavailable. Last error: "

\* C4: when a non-demo call with a well-formed number fails against every
\* backend, track returns status "Error", no events, source "none" and an
\* error that contains the error of the last backend attempted.
C4_TotalFailure ==
    NetworkCall /\ outcome = "returned" /\ AllAttemptsFailed =>
        /\ result.status = "Error"
        /\ result.events = <<>>
        /\ result.source = Some("none")
        /\ result.error = Some(TotalFailurePrefix \o LastAttemptError)

\* the only backend answered the form GET with an error status
C4_Witness ==
    /\ NetworkCall
    /\ AllAttemptsFailed
    /\ attempts[1].result.error = Some("Network error from MIS CEPT: 503 Server Error")
    /\ result.source = Some("none")

\* a leg of this answer failed
LegFailed(a) ==
    \E o \in {a.bootstrap, a.form, a.post} : o.kind \notin {"ok", "not_issued"}

\* C5: every call returns a TrackingResult: no call raises, no attempt
\* raises into track, and a failed network leg shows as the error of the
\* result.
C5_ErrorsAreReturnedNotRaised ==
    Called =>
        /\ outcome = "returned"
        /\ \A i \in DOMAIN attempts : ~attempts[i].raised
        /\ (\E i \in DOMAIN call.seen : LegFailed(call.seen[i])) => ~IsNone(result.error)

\* the POST failed with an exception that is not a RequestException and the
\* call returned
C5_Witness ==
    /\ NetworkCall
    /\ Len(call.seen) = 1
    /\ call.seen[1].post = OtherFailure
    /\ outcome = "returned"
    /\ ~IsNone(result.error)

\* the classifier has been applied to a sequence that begins with an event
Classified == cls_status # None /\ cls_events # <<>>

\* the description of the first event, lower-cased, has this word in it
FirstEventHas(word) == ContainsSub(ToLower(Chars(cls_events[1].event)), Chars(word))

\* C6: an event sequence whose first event's description is "Out for
\* delivery", in any letter case, is classified "Out for Delivery", not
\* "Delivered".
C6_OutForDeliveryBeforeDeliver ==
    Classified /\ ToLower(Chars(cls_events[1].event)) = Chars("out for delivery")
        => cls_status = Some("Out for Delivery")

\* C7, the rules: no events gives "No tracking information available";
\* otherwise the first rule that applies to the lower-cased description of
\* the first event decides: a delivery rule, then "transit" or "dispatch",
\* then "book", then "return", else the description as it is.
C7_Rules ==
    cls_status # None =>
        IF cls_events = <<>>
        THEN cls_status = Some("No tracking information available")
        ELSE IF FirstEventHas("deliver")
        THEN cls_status \in {Some("Delivered"), Some("Out for Delivery")}
        ELSE IF FirstEventHas("transit") \/ FirstEventHas("dispatch")
        THEN cls_status = Some("In Transit")
        ELSE IF FirstEventHas("book")
        THEN cls_status = Some("Booked")
        ELSE IF FirstEventHas("return")
        THEN cls_status = Some("Returned")
        ELSE cls_status = Some(cls_events[1].event)

\* C7, the later events: the status stays what it was while the first event
\* stays what it was.
C7_LaterIrrelevant ==
    Classified /\ cls_events' # <<>> /\ cls_events'[1] = cls_events[1]
        => cls_status' = cls_status

\* C7: the status is decided by the first event alone, by the rules in their
\* order, and changing, adding or removing a later event never changes it.
C7_StatusOfFirstEventOnly == []C7_Rules /\ [][C7_LaterIrrelevant]_vars

\* a first event that names a dispatch and a booking is "In Transit", with a
\* delivery behind it
C7_Witness ==
    /\ Classified
    /\ Len(cls_events) = MaxEvents
    /\ cls_events[1].event = "Bag dispatched after booking"
    /\ cls_events[2].event = "Item Delivered"
    /\ cls_status = Some("In Transit")

\* the value of an attribute, lower-cased, has one of these words in it
AttrHas(words, value) ==
    \E w \in words : ContainsSub(ToLower(Chars(value)), ToLower(Chars(w)))

\* the text of the first row of a table has one of the column words in it
HeaderNamesColumn(t) ==
    /\ t.rows # <<>>
    /\ \E w \in header_words : ContainsSub(ToLower(RowText(t.rows[1])), Chars(w))

\* the document has no events list, no table the parser would take for a
\* tracking table and no element of an error class
PlainDoc(doc) ==
    /\ \A i \in DOMAIN doc.lists : ~AttrHas({"events"}, doc.lists[i].class)
    /\ \A i \in DOMAIN doc.tables :
          /\ ~AttrHas(table_id_words, doc.tables[i].id)
          /\ ~AttrHas(table_class_words, doc.tables[i].class)
          /\ ~HeaderNamesColumn(doc.tables[i])
    /\ \A i \in DOMAIN doc.blocks : ~AttrHas({"error"}, doc.blocks[i].class)

\* every leg of the only attempt of the last call succeeded
AllLegsOk ==
    /\ NetworkCall
    /\ Len(call.seen) = 1
    /\ call.seen[1].form.kind = "ok"
    /\ call.seen[1].post.kind = "ok"
    /\ Sent("post")

\* C8: when every leg succeeds and the document has neither an events list
\* nor a matching table nor an error element, track returns a result without
\* error: no events, status "No tracking information available", and the
\* name of the backend as the source.
C8_EmptyDocumentIsNotAnError ==
    AllLegsOk /\ PlainDoc(call.seen[1].result_doc) =>
        /\ outcome = "returned"
        /\ IsNone(result.error)
        /\ result.events = <<>>
        /\ result.status = "No tracking information available"
        /\ result.source = Some(TRACKING_URLS[1].name)
        /\ result.source # Some("none")

\* the document had a list that is not an events list and a table that is
\* not a tracking table, with a row of three cells
C8_Witness ==
    /\ AllLegsOk
    /\ PlainDoc(call.seen[1].result_doc)
    /\ call.seen[1].result_doc.tables # <<>>
    /\ call.seen[1].result_doc.lists # <<>>
    /\ IsNone(result.error)

\* no request of the call that ends in the next state is a bootstrap GET
NoBootstrapNext == \A i \in DOMAIN requests' : requests'[i].leg # "bootstrap"

\* C9: a call on a tracker whose session flag is set, or whose bootstrap has
\* succeeded with no stale form detected since, sends no bootstrap GET.
C9_BootstrapOnlyWhileUninitialized ==
    [][(session_initialized \/ established) => NoBootstrapNext]_vars

\* a call on a tracker whose bootstrap had succeeded went straight to the
\* form GET
C9_Witness ==
    /\ NetworkCall
    /\ call.was_initialized
    /\ requests # <<>>
    /\ requests[1].leg = "form"
    /\ ~Sent("bootstrap")

\* the page has no <input> named __VIEWSTATE with a value
LacksViewState(form_doc) ==
    \A i \in DOMAIN form_doc :
        ~(form_doc[i].tag = "input" /\ form_doc[i].name = "__VIEWSTATE"
            /\ form_doc[i].value # "")

\* the form GET of the only attempt of the last call was answered with a
\* page that lacks __VIEWSTATE
StaleFormServed ==
    /\ NetworkCall
    /\ Len(call.seen) = 1
    /\ call.seen[1].form.kind = "ok"
    /\ LacksViewState(call.seen[1].form_doc)

\* C10, the attempt: it returns an error, sends no POST and leaves the
\* session uninitialized.
C10_StaleFormResets ==
    StaleFormServed =>
        /\ outcome = "returned"
        /\ ~attempts[1].raised
        /\ ~IsNone(attempts[1].result.error)
        /\ ~IsNone(result.error)
        /\ ~Sent("post")
        /\ ~session_initialized
        /\ ~established

\* C10, the next call: a non-demo call with a well-formed number on a
\* tracker left uninitialized sends the bootstrap GET first, and its form GET,
\* if any, after it.
C10_NextCallBootstraps ==
    (~session_initialized /\ ~established) /\ NetworkCall' =>
        /\ requests' # <<>>
        /\ requests'[1].leg = "bootstrap"
        /\ \A i \in DOMAIN requests' : requests'[i].leg = "form" => i > 1

\* C10: a tracking page without a non-empty __VIEWSTATE makes the attempt
\* return an error without a POST and resets the session, so that the next
\* non-demo call sends the bootstrap GET again before its form GET.
C10_StaleFormRebootstraps == []C10_StaleFormResets /\ [][C10_NextCallBootstraps]_vars

\* an initialized tracker was served a page without __VIEWSTATE and was left
\* uninitialized
C10_Witness ==
    /\ StaleFormServed
    /\ call.was_initialized
    /\ ~session_initialized
    /\ requests = <<Request("form", TRACKING_URLS[1].tracking_url)>>

\* the number of requests of the last call of this leg to this URL
Count(leg, url) ==
    Cardinality({i \in DOMAIN requests : requests[i].leg = leg /\ requests[i].url = url})

\* C11: within one call each backend is attempted at most once, and against
\* each backend the bootstrap GET, the form GET and the POST are each sent
\* at most once, whatever fails.
C11_NothingIsRetried ==
    Called =>
        /\ Len(attempts) <= Len(TRACKING_URLS)
        /\ Len(requests) <= 3 * Len(attempts)
        /\ \A b \in DOMAIN TRACKING_URLS :
              /\ Count("bootstrap", TRACKING_URLS[b].base_url) <= 1
              /\ Count("form", TRACKING_URLS[b].tracking_url) <= 1
              /\ Count("post", TRACKING_URLS[b].tracking_url) <= 1

\* the POST timed out after the bootstrap GET and the form GET, and the call
\* ended with three requests and an error
C11_Witness ==
    /\ NetworkCall
    /\ Len(call.seen) = 1
    /\ call.seen[1].post = TimedOut
    /\ Len(requests) = 3
    /\ Len(attempts) = 1
    /\ ~IsNone(result.error)

\* the names of the hidden-state fields
HiddenNames == {"__VIEWSTATE", "__VIEWSTATEGENERATOR", "__EVENTVALIDATION",
                "__EVENTTARGET", "__EVENTARGUMENT", "__PREVIOUSPAGE"}

\* the value captured for the field n of a form: that of the first <input>
\* named n, if it is not empty
Captured(form_doc, n) ==
    LET named == {i \in DOMAIN form_doc :
                     form_doc[i].tag = "input" /\ form_doc[i].name = n}
        first == CHOOSE i \in named : \A j \in named : i <= j
    IN  IF named = {} THEN None
        ELSE IF form_doc[first].value = "" THEN None
        ELSE Some(form_doc[first].value)

\* the last call sent a POST
Posted == NetworkCall /\ Len(call.seen) = 1 /\ Sent("post")

\* the POST of the last call
ThePost == requests[CHOOSE i \in DOMAIN requests : requests[i].leg = "post"]

\* C12: every hidden-state field captured from the form is in the body of
\* the POST under its name with the captured value, whatever the form.
C12_HiddenFieldsEchoed ==
    Posted =>
        \A n \in HiddenNames :
            ~IsNone(Captured(call.seen[1].form_doc, n)) =>
                /\ n \in DOMAIN ThePost.data
                /\ ThePost.data[n] = Captured(call.seen[1].form_doc, n)[1]

\* the name the submit button goes under: the one discovered, else the default
ButtonName ==
    IF IsNone(ThePost.submit_button) THEN "ctl00$ContentPlaceHolder1$btnTrack"
    ELSE ThePost.submit_button[1]

\* the name the tracking number goes under: the one discovered, else the default
InputName ==
    IF IsNone(ThePost.input_field) THEN "ctl00$ContentPlaceHolder1$txtItemId"
    ELSE ThePost.input_field[1]

\* the field n of the body is there for another reason than the submit
\* mechanism: it was captured from the form, or it is the input field
FromForm(n) ==
    \/ n = InputName
    \/ /\ ~IsNone(Captured(call.seen[1].form_doc, n))
       /\ ThePost.data[n] = Captured(call.seen[1].form_doc, n)[1]

\* C13: the body names one submit mechanism.  With a postback target it has
\* __EVENTTARGET set to the target and __EVENTARGUMENT set to "", and no
\* entry for the submit button, discovered or not; without one it has the
\* submit button, discovered or default, set to "Track Article", and
\* __EVENTTARGET and __EVENTARGUMENT only as the form gave them.
C13_OneSubmitMechanism ==
    Posted =>
        IF ~IsNone(ThePost.dopostback_target)
        THEN /\ ThePost.data["__EVENTTARGET"] = ThePost.dopostback_target[1]
             /\ ThePost.data["__EVENTARGUMENT"] = ""
             /\ ButtonName \in DOMAIN ThePost.data => FromForm(ButtonName)
        ELSE /\ ButtonName \in DOMAIN ThePost.data
             /\ ThePost.data[ButtonName] = "Track Article"
             /\ \A n \in {"__EVENTTARGET", "__EVENTARGUMENT"} \ {ButtonName} :
                   n \in DOMAIN ThePost.data => FromForm(n)

\* a form with a named submit button and a postback handler was submitted
\* by postback, without the button
C13_Witness ==
    /\ Posted
    /\ call.seen[1].form_doc = FormPostbackWithTarget
    /\ ThePost.submit_button = Some("ctl00$btnTrack")
    /\ ThePost.data["__EVENTTARGET"] = "ctl00$lnkTrack"
    /\ "ctl00$btnTrack" \notin DOMAIN ThePost.data

\* a form without a button was submitted under the default button name
C13_WitnessDefault ==
    /\ Posted
    /\ call.seen[1].form_doc = FormBare
    /\ ThePost.data["ctl00$ContentPlaceHolder1$btnTrack"] = "Track Article"

\* the first leg of the only attempt of the last call that failed, and how
FailedLeg ==
    LET a == call.seen[1]
    IN  IF a.bootstrap.kind \notin {"ok", "not_issued"} THEN <<"bootstrap", a.bootstrap>>
        ELSE IF a.form.kind \notin {"ok", "not_issued"} THEN <<"form", a.form>>
        ELSE IF a.post.kind \notin {"ok", "not_issued"} THEN <<"post", a.post>>
        ELSE <<"none", Ok>>

\* a leg of the only attempt of the last call failed in one of the three
\* kinds: timeout, connection, HTTP status
LegFailedInKind ==
    /\ NetworkCall
    /\ Len(call.seen) = 1
    /\ FailedLeg[2].kind \in {"timeout", "connection", "http_status"}

\* the error of the only attempt of the last call
AttemptError == attempts[1].result.error[1]

\* text has part in it
Carries(text, part) == ContainsSub(Chars(text), Chars(part))

\* C14 as stated: whichever leg fails, in whichever of the three kinds, the
\* error of the attempt carries the name of the backend and the message of
\* the failure.
C14_ErrorCarriesNameAndMessage ==
    LegFailedInKind =>
        /\ Carries(AttemptError, TRACKING_URLS[1].name)
        /\ Carries(AttemptError, FailedLeg[2].msg)

\* C14 as amended: a failed bootstrap GET, of whatever kind, gives "Could
\* not establish session with <backend>"; a form GET or POST that times out
\* gives "Request to <backend> timed out."; one that fails at connection
\* level or with an error status gives "Network error from <backend>:
\* <message>".  Every one of them carries the name of the backend.
C14_TwoKindsAfterBootstrap ==
    LegFailedInKind =>
        /\ ~attempts[1].raised
        /\ Carries(AttemptError, TRACKING_URLS[1].name)
        /\ IF FailedLeg[1] = "bootstrap"
           THEN AttemptError = "Could not establish session with " \o TRACKING_URLS[1].name
           ELSE IF FailedLeg[2].kind = "timeout"
           THEN AttemptError = "Request to " \o TRACKING_URLS[1].name \o " timed out."
           ELSE /\ AttemptError = "Network error from " \o TRACKING_URLS[1].name
                                     \o ": " \o FailedLeg[2].msg
                /\ Carries(AttemptError, FailedLeg[2].msg)

\* the form GET timed out on a tracker whose bootstrap had succeeded
C14_Witness ==
    /\ LegFailedInKind
    /\ FailedLeg = <<"form", TimedOut>>
    /\ AttemptError = "Request to MIS CEPT timed out."

\* the attempts at work that have opened the debug file
FileUsers ==
    {i \in Running : i \in debug_file.open_by \cup debug_file.written_by}

\* the result tracker.track gives for the number of task i, on a tracker of
\* its own, against the answers the task met
ResultAlone(i) ==
    track(bulk_request.tracking_numbers[i], bulk_request.demo, FALSE,
          tasks[i].sites).result

\* C15: attempts at work at the same time have each a tracker of their own
\* and no file in common, and an attempt that returned has the result it
\* gives when it runs alone.
C15_AttemptsShareNothing ==
    /\ \A i \in Running : \A j \in Running :
          i # j => tasks[i].tracker # tasks[j].tracker
    /\ Cardinality(FileUsers) <= 1
    /\ \A i \in DOMAIN tasks :
          tasks[i].pc = "done" /\ ~tasks[i].raised => tasks[i].result = ResultAlone(i)

\* the response to the bulk request is there
Responded == ~IsNone(bulk_response)

\* the i-th result of the response says the lookup succeeded
Succeeded(i) == bulk_response[1].results[i].success

\* C16: the response to a bulk request of n numbers has n results, the i-th
\* for the i-th number and with the outcome of the i-th attempt alone,
\* whatever the other attempts did; successful and failed count them, add up
\* to total = n, and success says that none failed.
C16_BulkCountsEveryNumber ==
    Responded =>
        LET r == bulk_response[1]
            tns == bulk_request.tracking_numbers
        IN  /\ r.status_code = 200
            /\ Len(r.results) = Len(tns)
            /\ \A i \in DOMAIN tns :
                  IF tasks[i].raised
                  THEN /\ r.results[i].tracking_number = tns[i]
                       /\ ~r.results[i].success
                       /\ r.results[i].status = "Error"
                       /\ r.results[i].error = Some(tasks[i].exc)
                  ELSE /\ r.results[i].tracking_number = ToUpper(Strip(tns[i]))
                       /\ tasks[i].result = ResultAlone(i)
                       /\ r.results[i].success = IsNone(tasks[i].result.error)
                       /\ r.results[i].status = tasks[i].result.status
                       /\ r.results[i].error = tasks[i].result.error
            /\ r.total = Len(tns)
            /\ r.successful = Cardinality({i \in DOMAIN tns : Succeeded(i)})
            /\ r.failed = Cardinality({i \in DOMAIN tns : ~Succeeded(i)})
            /\ r.successful + r.failed = r.total
            /\ r.success = (r.failed = 0)

\* a request of two numbers got its response: the first attempt ended with
\* an exception, the second found events
C16_Witness ==
    /\ Responded
    /\ Len(bulk_request.tracking_numbers) = 2
    /\ tasks[1].raised
    /\ ~Succeeded(1)
    /\ Succeeded(2)
    /\ bulk_response[1].results[2].events # <<>>
    /\ bulk_response[1].failed = 1

\* "flight" is in the characters cs, in whatever case
HasFlight(cs) ==
    \E i \in 0..(Len(cs) - 6) :
        /\ cs[i + 1] \in {"f", "F"}
        /\ cs[i + 2] \in {"l", "L"}
        /\ cs[i + 3] \in {"i", "I"}
        /\ cs[i + 4] \in {"g", "G"}
        /\ cs[i + 5] \in {"h", "H"}
        /\ cs[i + 6] \in {"t", "T"}

\* the events of fl_events that have a location with "flight" in it
FlightEventIdx ==
    {i \in DOMAIN fl_events :
        /\ ~IsNone(fl_events[i].location)
        /\ HasFlight(Chars(fl_events[i].location[1]))}

\* generate_flight_summary was applied
Summarized == ~IsNone(fl_summary)

\* C17: flightEventCount is the number of events whose location has "flight"
\* in it in whatever case, an event without location not being one, and
\* hasFlightEvents says that the number is not zero.
C17_CountsFlightEvents ==
    Summarized =>
        /\ fl_summary[1].flightEventCount = Cardinality(FlightEventIdx)
        /\ fl_summary[1].hasFlightEvents = (Cardinality(FlightEventIdx) > 0)

\* three events were summarised, one without location, one of a flight
\* written in capitals, one elsewhere
C17_Witness ==
    /\ Summarized
    /\ Len(fl_events) = 3
    /\ IsNone(fl_events[1].location)
    /\ fl_events[2].location = Some("CARGO FLIGHT DEL - YYZ")
    /\ fl_events[3].location = Some("Mumbai")
    /\ fl_summary[1].flightEventCount = 1
    /\ fl_summary[1].hasFlightEvents

\* the key of the flight event i: the flight number found in its location,
\* else the location in lower case
KeyAt(i) ==
    LET cs == Chars(fl_events[i].location[1])
    IN  IF NumberStarts(ToUpper(cs)) = {} THEN Unchars(ToLower(cs))
        ELSE SearchFlightNumber(ToUpper(cs))[1]

\* the flight events that are the first of their key
FirstOfKey ==
    {i \in FlightEventIdx : \A j \in FlightEventIdx : j < i => KeyAt(j) # KeyAt(i)}

\* C18: flights has one entry for each key of the flight events, the entry of
\* the first event of the key, in the order in which the keys first occur.
C18_OneFlightPerKey ==
    Summarized =>
        /\ Len(fl_summary[1].flights) = Cardinality(FirstOfKey)
        /\ \A i \in FirstOfKey :
              fl_summary[1].flights[Cardinality({j \in FirstOfKey : j <= i})]
                  = extract_flight_info(fl_events[i].location[1])[1]

\* two events of the same location at different times were summarised: one
\* flight, two flight events
C18_Witness ==
    /\ Summarized
    /\ Len(fl_events) = 2
    /\ fl_events[1].location = fl_events[2].location
    /\ fl_events[1].time # fl_events[2].time
    /\ Len(fl_summary[1].flights) = 1
    /\ fl_summary[1].flightEventCount = 2

\* three events of two flights, the first flight again after the second
C18_WitnessOrder ==
    /\ Summarized
    /\ Len(fl_events) = 3
    /\ fl_events[1].location = Some("Cargo flight DEL - YYZ")
    /\ fl_events[2].location = Some("flight ai0187")
    /\ fl_events[3].location = Some("CARGO FLIGHT DEL - YYZ")
    /\ Len(fl_summary[1].flights) = 2
    /\ fl_summary[1].flights[2].flightNumber = Some("AI0187")

\* extract_flight_info was applied to this location
Extracted(location) == fl_location = Some(location)

\* C19: extract_flight_info returns nothing for the empty location and a
\* dictionary otherwise, with the flight number and the route found each on
\* its own, the route of a "from X to Y" phrase before that of a pair of
\* three-letter codes.
C19_ExtractsNumberAndRoute ==
    /\ Extracted("") => IsNone(fl_info)
    /\ ~IsNone(fl_location) /\ ~Extracted("") => ~IsNone(fl_info)
    /\ Extracted("Flight - AI0187 (DEL to YYZ)") =>
          fl_info[1].flightNumber = Some("AI0187")
    /\ Extracted("from Delhi to Mumbai") =>
          /\ fl_info[1].origin = Some("Delhi")
          /\ fl_info[1].destination = Some("Mumbai")
          /\ IsNone(fl_info[1].flightNumber)
    /\ Extracted("DEL-YYZ") =>
          /\ fl_info[1].origin = Some("DEL")
          /\ fl_info[1].destination = Some("YYZ")
          /\ IsNone(fl_info[1].flightNumber)
    /\ Extracted("AI101 DEL-YYZ") =>
          /\ fl_info[1].flightNumber = Some("AI101")
          /\ fl_info[1].origin = Some("DEL")
          /\ fl_info[1].destination = Some("YYZ")
    /\ Extracted("DEL-YYZ from Delhi to Mumbai") =>
          /\ fl_info[1].origin = Some("Delhi")
          /\ fl_info[1].destination = Some("Mumbai")

\* a location with a pair of codes and a "from X to Y" phrase was extracted
C19_Witness ==
    /\ Extracted("DEL-YYZ from Delhi to Mumbai")
    /\ ~IsNone(fl_info)
    /\ fl_info[1].origin = Some("Delhi")

\* the location of a pair of codes alone was extracted
C19_WitnessPair ==
    /\ Extracted("DEL-YYZ")
    /\ fl_info = Some([flightNumber |-> None, airline |-> None,
                       origin |-> Some("DEL"), destination |-> Some("YYZ")])

\* C20: for the documented location "Flight - AI0187 (DEL to YYZ)" the
\* extraction gives the flight number AI0187, the airline AI, the origin DEL
\* and the destination YYZ.
C20_DocumentedExample ==
    Extracted("Flight - AI0187 (DEL to YYZ)") =>
        /\ ~IsNone(fl_info)
        /\ fl_info[1].flightNumber = Some("AI0187")
        /\ fl_info[1].airline = Some("AI")
        /\ fl_info[1].origin = Some("DEL")
        /\ fl_info[1].destination = Some("YYZ")

\* the place of the request of this leg among the requests of the last call
Pos(leg) == CHOOSE i \in DOMAIN requests : requests[i].leg = leg

\* the bootstrap GET of the only attempt of the last call failed
BootstrapFailed ==
    /\ NetworkCall
    /\ Len(call.seen) = 1
    /\ call.seen[1].bootstrap.kind \notin {"ok", "not_issued"}

\* C21, the order of the legs of an attempt: a bootstrap GET comes first and
\* a form GET follows it only if it succeeded; the POST comes after a form
\* GET that succeeded and gave a __VIEWSTATE value; a failed bootstrap GET
\* ends the attempt with an error that names the backend, without form GET
\* or POST, and leaves the session uninitialized.
C21_LegsInOrder ==
    NetworkCall =>
        /\ Sent("bootstrap") => Pos("bootstrap") = 1
        /\ Sent("bootstrap") /\ Sent("form") =>
              /\ call.seen[1].bootstrap.kind = "ok"
              /\ Pos("bootstrap") < Pos("form")
        /\ Sent("post") =>
              /\ Sent("form")
              /\ Pos("form") < Pos("post")
              /\ call.seen[1].form.kind = "ok"
              /\ ~LacksViewState(call.seen[1].form_doc)
        /\ BootstrapFailed =>
              /\ ~Sent("form")
              /\ ~Sent("post")
              /\ ~attempts[1].raised
              /\ ~IsNone(attempts[1].result.error)
              /\ Carries(attempts[1].result.error[1], TRACKING_URLS[1].name)
              /\ attempts[1].result.source = Some(TRACKING_URLS[1].name)
              /\ ~session_initialized

\* C21, the gate of the form GET: a call sends it only if a bootstrap GET
\* succeeded before it, in that call or in an earlier one with no stale form
\* since.
C21_FormAfterBootstrap ==
    NetworkCall' /\ Sent("form")' =>
        \/ established
        \/ /\ Sent("bootstrap")'
           /\ call'.seen[1].bootstrap.kind = "ok"

\* C21: the legs of an attempt are ordered and gated.
C21_LegsOrderedAndGated == []C21_LegsInOrder /\ [][C21_FormAfterBootstrap]_vars

\* the bootstrap GET of a call was refused: one request, an error, no session
C21_Witness ==
    /\ BootstrapFailed
    /\ call.seen[1].bootstrap = ConnectionFailed
    /\ requests = <<Request("bootstrap", TRACKING_URLS[1].base_url)>>
    /\ result.error # None
    /\ ~session_initialized

\* a call sent the three legs in order
C21_WitnessThreeLegs ==
    /\ AllLegsOk
    /\ Len(requests) = 3
    /\ Pos("bootstrap") = 1
    /\ Pos("form") = 2
    /\ Pos("post") = 3

\* the backend of TwoBackends a request was sent to
BackendOf(request) ==
    CHOOSE b \in DOMAIN TwoBackends :
        request.url \in {TwoBackends[b].base_url, TwoBackends[b].tracking_url}

\* the attempt i of the last call ended with an error or with an exception
AttemptFailed(i) == attempts[i].raised \/ ~Missing(attempts[i].result.error)

\* the error track remembers after the attempt i
ErrorOfAttempt(i) ==
    IF attempts[i].raised THEN attempts[i].exc ELSE attempts[i].result.error[1]

\* C22: track tries the backends in the order of the list: the i-th attempt
\* is against the i-th backend and the requests go to the backends in that
\* order; an attempt follows only attempts that failed; the first result
\* without an error is returned as it is and no later backend is contacted;
\* when every attempt failed every backend was tried and the result names
\* the error of the last one.
C22_BackendsInOrderFirstSuccessWins ==
    Called =>
        /\ Len(attempts) \in 1..Len(TwoBackends)
        /\ Len(call.seen) = Len(attempts)
        /\ \A i \in DOMAIN attempts :
              ~attempts[i].raised =>
                  attempts[i].result.source \in {None, Some(TwoBackends[i].name)}
        /\ \A i, j \in DOMAIN requests :
              i < j => BackendOf(requests[i]) <= BackendOf(requests[j])
        /\ \A i \in DOMAIN requests : BackendOf(requests[i]) <= Len(attempts)
        /\ \A i \in DOMAIN attempts : i < Len(attempts) => AttemptFailed(i)
        /\ ~AttemptFailed(Len(attempts)) =>
              /\ outcome = "returned"
              /\ result = attempts[Len(attempts)].result
        /\ AttemptFailed(Len(attempts)) =>
              /\ Len(attempts) = Len(TwoBackends)
              /\ outcome = "returned"
              /\ result.source = Some("none")
              /\ result.error = Some(TotalFailurePrefix \o ErrorOfAttempt(Len(attempts)))

\* the first backend answered without an error and the second was not tried
C22_Witness ==
    /\ Called
    /\ Len(attempts) = 1
    /\ ~AttemptFailed(1)
    /\ result.source = Some(TwoBackends[1].name)
    /\ \A i \in DOMAIN requests : BackendOf(requests[i]) = 1

\* the first backend failed and the result is that of the second
C22_WitnessSecondBackend ==
    /\ Called
    /\ Len(attempts) = 2
    /\ AttemptFailed(1)
    /\ ~AttemptFailed(2)
    /\ result = attempts[2].result
    /\ result.source = Some(TwoBackends[2].name)
    /\ \E i \in DOMAIN requests : BackendOf(requests[i]) = 2

\* both backends failed, with different errors
C22_WitnessAllFailed ==
    /\ Called
    /\ Len(attempts) = 2
    /\ AttemptFailed(1)
    /\ AttemptFailed(2)
    /\ ErrorOfAttempt(1) # ErrorOfAttempt(2)
    /\ result.source = Some("none")

\* the page the POST of the last call was answered with
ResultDocSeen == call.seen[1].result_doc

\* the last call parsed the page of its POST into a result without an error
PageParsed == AllLegsOk /\ IsNone(result.error)

\* the indices of the <ul> elements of a page whose class has "events" in it,
\* in whatever case
EventsListsOf(doc) ==
    {i \in DOMAIN doc.lists :
        ContainsSub(ToLower(Chars(doc.lists[i].class)), <<"e","v","e","n","t","s">>)}

\* the <li> has a description
HasDescription(item) == item.strong # ""

\* the events agree, one by one and in order, with the items: the
\* description, no office, the detail as location, no date without a <time>
EventsAreOfItems(events, items) ==
    /\ Len(events) = Len(items)
    /\ \A k \in DOMAIN items :
          /\ events[k].event = items[k].strong
          /\ events[k].office = ""
          /\ events[k].location = (IF items[k].detail = "" THEN None
                                   ELSE Some(items[k].detail))
          /\ items[k].time = "" => events[k].date = "" /\ events[k].time = ""
          /\ items[k].time # "" => events[k].date # ""

\* C23: when the page has a list whose class contains "events", the events of
\* the result are exactly those of the items of the first such list that
\* have a description, in the order of the page, and no event comes from a
\* table, also when no item has a description and a tracking table is on
\* the page; an event with an office, which only a table row gives, is in
\* the result only when the page has no such list.
C23_ListLayoutExcludesTable ==
    PageParsed =>
        /\ EventsListsOf(ResultDocSeen) # {} =>
              EventsAreOfItems(result.events,
                  SelectSeq(ResultDocSeen.lists[Least(EventsListsOf(ResultDocSeen))].items,
                            HasDescription))
        /\ (\E k \in DOMAIN result.events : result.events[k].office # "") =>
              EventsListsOf(ResultDocSeen) = {}
        /\ EventsListsOf(ResultDocSeen) = {} /\ ResultDocSeen.tables = <<>> =>
              result.events = <<>>

\* the page has an events list without a described item and a tracking table
\* with a row of data: the result has no events
C23_Witness ==
    /\ PageParsed
    /\ EventsListsOf(ResultDocSeen) # {}
    /\ \E t \in DOMAIN ResultDocSeen.tables :
          /\ ContainsSub(Chars(ResultDocSeen.tables[t].id), Chars("GridView"))
          /\ Len(ResultDocSeen.tables[t].rows) >= 2
    /\ result.events = <<>>

\* the page has an events list with described items after another list
C23_WitnessListEvents ==
    /\ PageParsed
    /\ EventsListsOf(ResultDocSeen) # {}
    /\ Least(EventsListsOf(ResultDocSeen)) > 1
    /\ Len(result.events) >= 2

\* the page has no events list and the events are those of a table
C23_WitnessTable ==
    /\ PageParsed
    /\ EventsListsOf(ResultDocSeen) = {}
    /\ \E k \in DOMAIN result.events : result.events[k].office # ""

\* the summary of a page as the article table and the delivery label leave
\* it, before the free-text fallback
BeforeFallback(doc) ==
    LabelInfo(
        ArticleInfo(NoInfo,
            FindFirst(doc.tables, {i \in DOMAIN doc.tables : doc.tables[i].id = "example"})),
        FindFirst(doc.blocks,
                  {i \in DOMAIN doc.blocks :
                      /\ doc.blocks[i].tag = "span"
                      /\ ContainsSub(ToLower(Chars(doc.blocks[i].id)), Chars("label"))}))

\* the fields of the summary as the result carries them
SummaryOfResult ==
    [origin |-> result.origin, destination |-> result.destination,
     booked_on |-> result.booked_on, delivered_on |-> result.delivered_on,
     article_type |-> result.article_type]

\* C24: the free-text fallback overwrites nothing: an origin, a destination
\* or a delivery date that the article table or the delivery label set to a
\* value (a text that is not empty) is returned as it was set, and a field
\* of the returned summary differs from what it was before the fallback
\* only if it was missing then.
C24_FallbackFillsOnlyMissing ==
    PageParsed =>
        /\ \A f \in {"origin", "destination", "delivered_on"} :
              ~Missing(BeforeFallback(ResultDocSeen)[f]) =>
                  SummaryOfResult[f] = BeforeFallback(ResultDocSeen)[f]
        /\ \A f \in DOMAIN SummaryOfResult :
              SummaryOfResult[f] # BeforeFallback(ResultDocSeen)[f] =>
                  Missing(BeforeFallback(ResultDocSeen)[f])

\* the table set the origin and the label the delivery date, the fallback
\* ran for the destination and found another origin in the text
C24_Witness ==
    /\ PageParsed
    /\ ~Missing(BeforeFallback(ResultDocSeen).origin)
    /\ ~Missing(BeforeFallback(ResultDocSeen).delivered_on)
    /\ Missing(BeforeFallback(ResultDocSeen).destination)
    /\ ~IsNone(ResultDocSeen.found.origin)
    /\ ResultDocSeen.found.origin # BeforeFallback(ResultDocSeen).origin
    /\ result.origin = BeforeFallback(ResultDocSeen).origin
    /\ result.destination = ResultDocSeen.found.destination
    /\ ~Missing(result.destination)

\* the table set the origin to the empty text of an empty cell, and the
\* fallback filled it
C24_WitnessEmptyCell ==
    /\ PageParsed
    /\ BeforeFallback(ResultDocSeen).origin = Some("")
    /\ ~Missing(result.origin)

\* the event has a location with "flight" in it, in whatever case
LocationHasFlight(event) ==
    /\ ~IsNone(event.location)
    /\ HasFlight(Chars(event.location[1]))

\* the response came from GET /track/{number}
SingleLookup == Responded /\ "status_code" \in DOMAIN bulk_response[1]
                          /\ "results" \notin DOMAIN bulk_response[1]

\* the TrackingResponse for the i-th number of the request
ResponseAt(i) ==
    IF SingleLookup THEN bulk_response[1].response ELSE bulk_response[1].results[i]

\* the flight summary the same lookup gives the same result under the other
\* value of flightOnly
SummaryUnderOtherFlag(i) ==
    IF SingleLookup
    THEN track_shipment(tasks[i], ~bulk_request.flightOnly).response.flightSummary
    ELSE ResponseOfResult(tasks[i].result, ~bulk_request.flightOnly).flightSummary

\* C25: in the response of the single and of the bulk lookup the flight
\* summary counts the flight events of all the events track returned and is
\* the one the lookup gives under the other value of flightOnly; the events
\* are all the events without flightOnly and, with it, the flight events of
\* all the events, in their order.
C25_SummaryOfAllEvents ==
    Responded =>
        \A i \in DOMAIN tasks :
            ~tasks[i].raised =>
                /\ ResponseAt(i).events =
                       (IF bulk_request.flightOnly
                        THEN SelectSeq(tasks[i].result.events, LocationHasFlight)
                        ELSE tasks[i].result.events)
                /\ ~IsNone(ResponseAt(i).flightSummary)
                /\ ResponseAt(i).flightSummary[1].flightEventCount =
                       Len(SelectSeq(tasks[i].result.events, LocationHasFlight))
                /\ ResponseAt(i).flightSummary[1].hasFlightEvents =
                       (SelectSeq(tasks[i].result.events, LocationHasFlight) # <<>>)
                /\ ResponseAt(i).flightSummary = SummaryUnderOtherFlag(i)

\* a single lookup with flightOnly returned some of the events of the result,
\* not all, and the summary counts those
C25_Witness ==
    /\ SingleLookup
    /\ bulk_request.flightOnly
    /\ ~tasks[1].raised
    /\ ResponseAt(1).events # <<>>
    /\ Len(ResponseAt(1).events) < Len(tasks[1].result.events)
    /\ ResponseAt(1).flightSummary[1].flightEventCount = Len(ResponseAt(1).events)

\* a bulk lookup of two numbers with flightOnly: a result with flight events
\* among others
C25_WitnessBulk ==
    /\ Responded
    /\ ~SingleLookup
    /\ bulk_request.flightOnly
    /\ Len(bulk_request.tracking_numbers) = 2
    /\ \E i \in DOMAIN tasks :
          /\ ~tasks[i].raised
          /\ ResponseAt(i).events # <<>>
          /\ Len(ResponseAt(i).events) < Len(tasks[i].result.events)

\* a lookup with flightOnly of a result with events none of which is of a
\* flight: no events are returned
C25_WitnessNoFlight ==
    /\ Responded
    /\ bulk_request.flightOnly
    /\ \E i \in DOMAIN tasks :
          /\ ~tasks[i].raised
          /\ tasks[i].result.events # <<>>
          /\ ResponseAt(i).events = <<>>
          /\ ~ResponseAt(i).flightSummary[1].hasFlightEvents

\* a single lookup without flightOnly returned all the events, one of a flight
C25_WitnessAllEvents ==
    /\ SingleLookup
    /\ ~bulk_request.flightOnly
    /\ ~tasks[1].raised
    /\ ResponseAt(1).events = tasks[1].result.events
    /\ ResponseAt(1).flightSummary[1].flightEventCount = 1
    /\ Len(ResponseAt(1).events) > 1

\* the bootstrap GET of the call that ends in the next state was answered
\* without an exception and without an error status
BootstrapSucceedsNext ==
    /\ Sent("bootstrap")'
    /\ \E i \in DOMAIN call'.seen : call'.seen[i].bootstrap.kind = "ok"

\* the form GET of the only attempt of the last call was answered and no
\* value was captured for __VIEWSTATE: the tracker takes the form for stale
StaleFormDetected ==
    /\ Len(call.seen) = 1
    /\ call.seen[1].form.kind = "ok"
    /\ IsNone(Captured(call.seen[1].form_doc, "__VIEWSTATE"))

\* C26, the state: the flag is set only if a bootstrap GET succeeded with no
\* stale form detected since; before any call it is not set; a call with a
\* malformed number and a demo call send no request.
C26_FlagMeansBootstrapped ==
    /\ session_initialized => established
    /\ ~Called => ~session_initialized
    /\ (Called /\ ~NetworkCall) => requests = <<>>

\* C26, the step: a call sets the flag only by a bootstrap GET that
\* succeeded, clears it only when its form GET is answered with a page
\* without a __VIEWSTATE value, and otherwise leaves it: a call that sends
\* no request leaves it as it was, a call whose bootstrap, form GET or POST
\* failed does not clear it, and a failed bootstrap does not set it.
C26_FlagChanges ==
    /\ (~session_initialized /\ session_initialized') => BootstrapSucceedsNext
    /\ (session_initialized /\ ~session_initialized') => StaleFormDetected'
    /\ IF requests' = <<>> THEN session_initialized' = session_initialized
       ELSE IF StaleFormDetected' THEN ~session_initialized'
       ELSE session_initialized' = (session_initialized \/ BootstrapSucceedsNext)

\* C26: the session flag starts false, is true only after a successful
\* bootstrap GET since it was last false, is cleared by the detection of a
\* stale form only, and is left as it is by validation failures, demo calls,
\* timeouts, transport errors and POST failures.
C26_SessionFlagFollowsBootstrap ==
    []C26_FlagMeansBootstrapped /\ [][C26_FlagChanges]_vars

\* a call on a fresh tracker whose bootstrap succeeded and whose POST timed
\* out left the flag set
C26_Witness ==
    /\ NetworkCall
    /\ ~call.was_initialized
    /\ Len(call.seen) = 1
    /\ call.seen[1].bootstrap.kind = "ok"
    /\ call.seen[1].post.kind = "timeout"
    /\ Sent("post")
    /\ session_initialized

\* a demo call and a call with a malformed number on an initialized tracker
\* left the flag set
C26_WitnessNoNetwork ==
    /\ Called
    /\ ~NetworkCall
    /\ call.was_initialized
    /\ session_initialized

\* a call on an initialized tracker whose form GET failed to connect left the
\* flag set
C26_WitnessFormFailed ==
    /\ NetworkCall
    /\ call.was_initialized
    /\ Len(call.seen) = 1
    /\ call.seen[1].form.kind = "connection"
    /\ session_initialized

\* a stale form was detected on an initialized tracker, which cleared the flag
C26_WitnessStale ==
    /\ StaleFormDetected
    /\ call.was_initialized
    /\ ~session_initialized

\* a failed bootstrap left the flag unset
C26_WitnessBootstrapFailed ==
    /\ BootstrapFailed
    /\ ~session_initialized


====
